---------------------------- MODULE Spec2Model ----------------------------
(***************************************************************************)
(* A model of the trihedral calibration-rig scripts.                       *)
(*                                                                         *)
(*   D9_Trihedral_DesignB_6x5.py  the forward path: resolve dimensions,    *)
(*                                build three panels, place markers,       *)
(*                                export.                                  *)
(*   DesignBglb.py                the classifier path: infer floor and     *)
(*                                walls of an existing mesh from bounding  *)
(*                                boxes, place markers, export.            *)
(*                                                                         *)
(* NUMBERS.  The scripts compute with Python floats.  The model computes   *)
(* exactly, on a grid:                                                     *)
(*   - a length in millimetres is an integer number of ticks of 1/40 mm,   *)
(*     and every length that enters the program (a default, a value of     *)
(*     the override document) is an EVEN number of ticks (a multiple of    *)
(*     0.05 mm), so that the halvings of the source (x / 2.0) are exact;   *)
(*   - a world coordinate (Blender metres) is an integer number of world   *)
(*     units of 1/80000 m, so that mm() multiplies by MM_TO_M = 2 world    *)
(*     units per tick and size * 0.5 is exact for every converted length;  *)
(*   - CHECKER_COLS and CHECKER_ROWS are plain integers.                   *)
(* Floating-point rounding is not modelled.                                *)
(*                                                                         *)
(* HOST.  Blender is an external collaborator.  Its primitives are         *)
(* modelled by the contract the source states for them (lines 347, 356     *)
(* and 650 of the forward script: "cube size=1.0 is 2 units across", so a  *)
(* primitive scaled by half-extents has the full extents).                 *)
(***************************************************************************)
EXTENDS Integers, Sequences, FiniteSets, TLC

VARIABLES
    pc,        \* forward script: position of main()
    G,         \* forward script: the module globals PANEL_W .. OVERLAP
    doc,       \* the override document "dimensionsdoc"
    present,   \* ids of the marker images that exist on disk
    warned,    \* load_dimensions printed the panel-size warning
    scene,     \* host scene: object name -> solid
    markers,   \* marker planes created, in order of creation
    calls,     \* host operators invoked by the forward script, in order
    mats,      \* checker materials created, in order of creation
    exported,  \* number of times the exporter was invoked
    err,       \* exception that ended main(), or "none"
    parts,     \* classifier script: the separated parts (bounding boxes)
    materials, \* classifier script: part -> material in its slot 0
    panels,    \* classifier script: the panel candidates, largest first
    floor,     \* classifier script: the floor panel, or None
    walls      \* classifier script: the wall panels

vars == <<pc, G, doc, present, warned, scene, markers, calls, mats, exported, err,
          parts, materials, panels, floor, walls>>

\* the locals of the classifier script's main()
classifier == <<parts, materials, panels, floor, walls>>

\* the state of the forward script only
forward == <<G, doc, warned, mats>>

\* Python's None, where an object is expected
None == [name |-> 0]

---------------------------------------------------------------------------
(* Bounds of the model *)

\* longest override document, in lines
MaxLines == 2

\* largest panel width and height of the geometry runs, in steps of 2 ticks
MaxPanel == 4

\* largest panel thickness of the geometry runs, in steps of 2 ticks
MaxThick == 2

\* largest seam overlap of the geometry runs, in steps of 2 ticks
MaxOverlap == 2

\* largest cutout width and depth of the geometry runs, in steps of 2 ticks
MaxCutout == 2

\* largest margin of the geometry runs, in steps of 2 ticks
MaxMargin == 1

\* largest marker size of the geometry runs, in steps of 2 ticks
MaxMarker == 1

---------------------------------------------------------------------------
(* Arithmetic helpers *)

Abs(x) == IF x < 0 THEN -x ELSE x

Max(a, b) == IF a >= b THEN a ELSE b

Min(a, b) == IF a <= b THEN a ELSE b

\* x / 2.0 ; exact on the grid (x is even wherever the source halves)
Half(x) == IF x >= 0 THEN x \div 2 ELSE -((-x) \div 2)

\* int(x) of a float x given in ticks of 1/40: truncation toward zero
Trunc(x) == IF x >= 0 THEN x \div 40 ELSE -((-x) \div 40)

\* mathutils.Vector
Vector(x, y, z) == [x |-> x, y |-> y, z |-> z]

VAdd(a, b) == [x |-> a.x + b.x, y |-> a.y + b.y, z |-> a.z + b.z]

VScale(a, k) == [x |-> a.x * k, y |-> a.y * k, z |-> a.z * k]

VHalf(a) == [x |-> Half(a.x), y |-> Half(a.y), z |-> Half(a.z)]

---------------------------------------------------------------------------
(* Configuration (D9_Trihedral_DesignB_6x5.py, lines 9-37) *)

\* world units per tick
MM_TO_M == 2

MarkerIds == {"1", "2", "3", "4", "5", "6", "7", "8"}

\* the module globals as the script sets them, in ticks of 1/40 mm
\* (108.0, 94.0, 0.8, 6, 5, 14.0, 12.0, 10.5, 0.05, 20.0, 10.0, 0.1)
Defaults ==
    [PANEL_W |-> 4320, PANEL_H |-> 3760, PANEL_THICK |-> 32,
     CHECKER_COLS |-> 6, CHECKER_ROWS |-> 5, SQUARE_SIZE |-> 560,
     MARGIN |-> 480, MARKER_SIZE |-> 420, EPS |-> 2,
     CUTOUT_WIDTH |-> 800, CUTOUT_DEPTH |-> 400, OVERLAP |-> 4]

Keys == DOMAIN Defaults

\* the keys whose default is a Python int (isinstance(default_value, int))
IntKeys == {"CHECKER_COLS", "CHECKER_ROWS"}

mm(x) == x * MM_TO_M

---------------------------------------------------------------------------
(* The override document (parse_dimensions_file, lines 49-80)              *)
(*                                                                         *)
(* A line of text is kept as the three pieces the parser cuts it into:     *)
(* key (the text before the first separator the parser looks for), sep     *)
(* ("=" when the line holds one, else ":" when it holds one, else "") and  *)
(* val (the text after it).  A line with no separator is all key.          *)

Line(k, s, v) == [key |-> k, sep |-> s, val |-> v]

\* str.strip() on the strings of the model
strip(s) ==
    CASE s = " Margin " -> "Margin"
      [] s = " 16 "     -> "16"
      [] OTHER          -> s

\* faulty variant of upper: the key is compared as written
upper_as_written(s) == s

\* str.upper() on the (stripped) keys of the model
upper(s) ==
    CASE s = "checker_rows" -> "CHECKER_ROWS"
      [] s = "panel_w"      -> "PANEL_W"
      [] s = "Margin"       -> "MARGIN"
      [] s = "cols"         -> "COLS"
      [] s = "panel_w_mm"   -> "PANEL_W_MM"
      [] OTHER              -> s

\* line.startswith("#") on the stripped line, whose text starts with its key
startswith_hash(line) == strip(line.key) \in {"# PANEL_W", "#"}

\* `not line` on the stripped line
is_empty(line) == strip(line.key) = "" /\ line.sep = "" /\ strip(line.val) = ""

\* float(value): the number in ticks of 1/40, an infinity, or a ValueError.
\* An infinite float is none of the numbers of the model: the documents of
\* the model give "inf" to integer keys only.
float(s) ==
    CASE s = "0"   -> [ok |-> TRUE, inf |-> FALSE, v |-> 0]
      [] s = "-1"  -> [ok |-> TRUE, inf |-> FALSE, v |-> -40]
      [] s = "7.9" -> [ok |-> TRUE, inf |-> FALSE, v |-> 316]
      [] s = "8"   -> [ok |-> TRUE, inf |-> FALSE, v |-> 320]
      [] s = "16"  -> [ok |-> TRUE, inf |-> FALSE, v |-> 640]
      [] s = "20"  -> [ok |-> TRUE, inf |-> FALSE, v |-> 800]
      [] s = "200" -> [ok |-> TRUE, inf |-> FALSE, v |-> 8000]
      [] s = "inf" -> [ok |-> TRUE, inf |-> TRUE, v |-> 0]
      [] OTHER     -> [ok |-> FALSE, inf |-> FALSE, v |-> 0]

\* int(x) of a float: truncation, or OverflowError for an infinity
int(f) ==
    IF f.inf THEN [raised |-> "OverflowError", v |-> 0]
    ELSE [raised |-> "none", v |-> Trunc(f.v)]

\* one pass of the loop body (lines 58-78): the updates after this line.
\* `except ValueError` (line 77) catches the failure of float(), not the
\* OverflowError of int(): see line_raises.
parse_line(line, defaults, updates) ==
    IF is_empty(line) \/ startswith_hash(line) THEN updates
    ELSE IF line.sep = "" THEN updates
    ELSE LET key   == upper(strip(line.key))
             value == strip(line.val)
             f     == float(value)
         IN  IF key \notin DOMAIN defaults THEN updates
             ELSE IF ~f.ok THEN updates
             ELSE IF key \in IntKeys
                  THEN (IF int(f).raised # "none" THEN updates
                        ELSE (key :> int(f).v) @@ updates)
             ELSE (key :> f.v) @@ updates

\* the exception that leaves the loop body at this line, or "none"
line_raises(line, defaults) ==
    IF is_empty(line) \/ startswith_hash(line) THEN "none"
    ELSE IF line.sep = "" THEN "none"
    ELSE LET key == upper(strip(line.key))
             f   == float(strip(line.val))
         IN  IF key \notin DOMAIN defaults THEN "none"
             ELSE IF ~f.ok THEN "none"
             ELSE IF key \in IntKeys THEN int(f).raised
             ELSE "none"

RECURSIVE parse_lines(_, _, _)
parse_lines(lines, defaults, updates) ==
    IF lines = <<>> THEN updates
    ELSE parse_lines(Tail(lines), defaults,
                     parse_line(Head(lines), defaults, updates))

\* the dict `updates` the parser has built when the file is read through
parse_updates(d, defaults) ==
    IF ~d.exists THEN <<>> ELSE parse_lines(d.lines, defaults, <<>>)

\* the exception parse_dimensions_file ends with, or "none"
parse_raised(d, defaults) ==
    IF d.exists /\ \E i \in 1..Len(d.lines) :
                      line_raises(d.lines[i], defaults) # "none"
    THEN "OverflowError"
    ELSE "none"

parse_dimensions_file(d, defaults) ==
    IF ~d.exists THEN defaults
    ELSE LET updates == parse_updates(d, defaults)
         IN  [k \in DOMAIN defaults |->
                 IF k \in DOMAIN updates THEN updates[k] ELSE defaults[k]]

\* lines 100-106: panel size derived where it is missing or not positive
derive_panel(merged) ==
    LET active_w == merged.CHECKER_COLS * merged.SQUARE_SIZE
        active_h == merged.CHECKER_ROWS * merged.SQUARE_SIZE
        w == IF merged.PANEL_W <= 0
             THEN active_w + 2 * merged.MARGIN ELSE merged.PANEL_W
        h == IF merged.PANEL_H <= 0
             THEN active_h + 2 * merged.MARGIN ELSE merged.PANEL_H
    IN  [merged EXCEPT !.PANEL_W = w, !.PANEL_H = h]

\* faulty variant of load_dimensions: a panel size that does not match the
\* checker area plus margins is replaced by the expected one
load_dimensions_enforcing(g, d) ==
    LET merged == derive_panel(parse_dimensions_file(d, g))
        expected_w == merged.CHECKER_COLS * merged.SQUARE_SIZE + 2 * merged.MARGIN
        expected_h == merged.CHECKER_ROWS * merged.SQUARE_SIZE + 2 * merged.MARGIN
    IN  IF Abs(merged.PANEL_W - expected_w) > 4 \/ Abs(merged.PANEL_H - expected_h) > 4
        THEN [merged EXCEPT !.PANEL_W = expected_w, !.PANEL_H = expected_h]
        ELSE merged

\* faulty variant of load_dimensions: the returned width includes the
\* overlap the floor is extended by
load_dimensions_padded(g, d) ==
    LET merged == derive_panel(parse_dimensions_file(d, g))
    IN  [merged EXCEPT !.PANEL_W = merged.PANEL_W + merged.OVERLAP]

\* load_dimensions with the globals g as defaults
load_dimensions(g, d) == derive_panel(parse_dimensions_file(d, g))

\* lines 108-114: the advisory check (0.1 mm is 4 ticks)
size_warning(merged) ==
    LET expected_w == merged.CHECKER_COLS * merged.SQUARE_SIZE + 2 * merged.MARGIN
        expected_h == merged.CHECKER_ROWS * merged.SQUARE_SIZE + 2 * merged.MARGIN
    IN  Abs(merged.PANEL_W - expected_w) > 4 \/ Abs(merged.PANEL_H - expected_h) > 4

\* the lines an override document of the model is made of
DocLines ==
    { Line("CHECKER_COLS", "=", "8"),
      Line("checker_rows", ":", "0"),
      Line("MARKER_SIZE", "=", "0"),
      Line("panel_w", "=", "20"),
      Line("PANEL_W", "=", "-1"),
      Line("PANEL_H", "=", "abc"),
      Line("# PANEL_W", "=", "20"),
      Line("cols", "=", "8"),
      Line("CHECKER_COLS", ":", "7.9"),
      Line("OVERLAP", "=", "0"),
      Line(" Margin ", "=", " 16 "),
      Line("CHECKER_COLS", "=", "inf"),
      Line("PANEL_W 20", "", ""),
      Line("panel_w_mm", "=", "20"),
      Line("", "", "") }

RECURSIVE SeqsUpTo(_, _)
SeqsUpTo(S, n) ==
    IF n = 0 THEN {<<>>}
    ELSE LET shorter == SeqsUpTo(S, n - 1)
         IN  shorter \cup {Append(s, e) : s \in shorter, e \in S}

Docs ==
    {[exists |-> FALSE, lines |-> <<>>]}
    \cup {[exists |-> TRUE, lines |-> l] : l \in SeqsUpTo(DocLines, MaxLines)}

---------------------------------------------------------------------------
(* Geometry builders (lines 343-447)                                       *)
(*                                                                         *)
(* A solid is [mn, mx, cut]: the axis-aligned box from corner mn to corner *)
(* mx, minus the boxes of the set cut (the host's boolean DIFFERENCE, as   *)
(* an exact box difference).                                               *)

Box(mn, mx) == [mn |-> mn, mx |-> mx]

\* faulty variant of scaled_cube: the primitive is one unit across, so the
\* scaled cube reaches |scale| / 2 to each side
scaled_cube_unit_edge(location, scale) ==
    [mn |-> Vector(location.x - Half(Abs(scale.x)),
                   location.y - Half(Abs(scale.y)),
                   location.z - Half(Abs(scale.z))),
     mx |-> Vector(location.x + Half(Abs(scale.x)),
                   location.y + Half(Abs(scale.y)),
                   location.z + Half(Abs(scale.z)))]

\* bpy.ops.mesh.primitive_cube_add(size=1.0, location) followed by
\* obj.scale = scale and transform_apply: by the source's contract the
\* primitive reaches one unit to each side of its location, so the scaled
\* cube reaches |scale| to each side
scaled_cube(location, scale) ==
    Box(Vector(location.x - Abs(scale.x), location.y - Abs(scale.y),
               location.z - Abs(scale.z)),
        Vector(location.x + Abs(scale.x), location.y + Abs(scale.y),
               location.z + Abs(scale.z)))

add_box_from_corner(corner_world, size_world) ==
    LET center == VAdd(corner_world, VHalf(size_world))
    IN  scaled_cube(center, VHalf(size_world))

Solid(box, cut) == [mn |-> box.mn, mx |-> box.mx, cut |-> cut]

\* faulty variant of floor_box: the floor is not extended by OVERLAP
floor_box_no_overlap(g) ==
    add_box_from_corner(Vector(0, 0, 0),
        Vector(mm(g.PANEL_W), mm(g.PANEL_H), mm(g.PANEL_THICK)))

\* add_floor, lines 373-375: the main floor panel
floor_box(g) ==
    LET corner == Vector(0, 0, 0)
        size   == Vector(mm(g.PANEL_W + g.OVERLAP), mm(g.PANEL_H + g.OVERLAP),
                         mm(g.PANEL_THICK))
    IN  add_box_from_corner(corner, size)

\* faulty variant of cutout_box: the box is CUTOUT_DEPTH deep, not twice that
cutout_box_single_depth(g) ==
    add_box_from_corner(
        Vector(mm(Half(g.PANEL_W)) - mm(Half(g.CUTOUT_WIDTH)),
               -mm(g.CUTOUT_DEPTH), -mm(g.PANEL_THICK)),
        Vector(mm(g.CUTOUT_WIDTH), mm(g.CUTOUT_DEPTH), mm(g.PANEL_THICK * 3)))

\* add_floor, lines 379-394: the box to subtract
cutout_box(g) ==
    LET cutout_center_x == mm(Half(g.PANEL_W))
        cutout_corner == Vector(cutout_center_x - mm(Half(g.CUTOUT_WIDTH)),
                                -mm(g.CUTOUT_DEPTH),
                                -mm(g.PANEL_THICK))
        cutout_size   == Vector(mm(g.CUTOUT_WIDTH), mm(g.CUTOUT_DEPTH * 2),
                                mm(g.PANEL_THICK * 3))
    IN  add_box_from_corner(cutout_corner, cutout_size)

\* faulty variant of add_floor: the cutout is subtracted from the wrong object and
\* the floor stays whole
add_floor_uncut(g) == Solid(floor_box(g), {})

\* add_floor: the floor with the cutout subtracted (lines 396-413)
add_floor(g) == Solid(floor_box(g), {cutout_box(g)})

\* faulty variant of add_back_wall: the wall starts OVERLAP before y = PANEL_H
add_back_wall_shifted(g) ==
    LET wall_z == Max(0, g.PANEL_THICK - g.OVERLAP)
        corner == Vector(0, mm(g.PANEL_H - g.OVERLAP), mm(wall_z))
        size   == Vector(mm(g.PANEL_W + g.OVERLAP), mm(g.PANEL_THICK + g.OVERLAP),
                         mm(g.PANEL_H + g.OVERLAP))
    IN  Solid(add_box_from_corner(corner, size), {})

add_back_wall(g) ==
    LET wall_z == Max(0, g.PANEL_THICK - g.OVERLAP)
        corner == Vector(0, mm(g.PANEL_H), mm(wall_z))
        size   == Vector(mm(g.PANEL_W + g.OVERLAP), mm(g.PANEL_THICK + g.OVERLAP),
                         mm(g.PANEL_H + g.OVERLAP))
    IN  Solid(add_box_from_corner(corner, size), {})

\* faulty variant of add_right_wall: the wall stands on the floor's top face
add_right_wall_on_top(g) ==
    LET corner == Vector(mm(g.PANEL_W), 0, mm(g.PANEL_THICK))
        size   == Vector(mm(g.PANEL_THICK + g.OVERLAP), mm(g.PANEL_H + g.OVERLAP),
                         mm(g.PANEL_H + g.OVERLAP))
    IN  Solid(add_box_from_corner(corner, size), {})

add_right_wall(g) ==
    LET wall_z == Max(0, g.PANEL_THICK - g.OVERLAP)
        corner == Vector(mm(g.PANEL_W), 0, mm(wall_z))
        size   == Vector(mm(g.PANEL_THICK + g.OVERLAP), mm(g.PANEL_H + g.OVERLAP),
                         mm(g.PANEL_H + g.OVERLAP))
    IN  Solid(add_box_from_corner(corner, size), {})

---------------------------------------------------------------------------
(* Markers (lines 604-752) *)

\* faulty variant of panel_point: the floor's point is not lifted to the
\* top face
panel_point_on_origin(g, panel_origin, normal_dir, u_mm, v_mm, face_offset_mm) ==
    IF normal_dir = "Z"
    THEN VAdd(panel_origin, Vector(mm(u_mm), mm(v_mm), mm(face_offset_mm)))
    ELSE IF normal_dir = "Y"
    THEN VAdd(panel_origin, Vector(mm(u_mm), -mm(face_offset_mm), mm(v_mm)))
    ELSE VAdd(panel_origin, Vector(-mm(face_offset_mm), mm(u_mm), mm(v_mm)))

panel_point(g, panel_origin, normal_dir, u_mm, v_mm, face_offset_mm) ==
    LET u   == mm(u_mm)
        v   == mm(v_mm)
        off == mm(face_offset_mm)
    IN  IF normal_dir = "Z"
        THEN VAdd(panel_origin, Vector(u, v, mm(g.PANEL_THICK) + off))
        ELSE IF normal_dir = "Y"
        THEN VAdd(panel_origin, Vector(u, -off, v))
        ELSE VAdd(panel_origin, Vector(-off, u, v))

\* the plane add_marker_plane creates (its material aside): the plane
\* primitive scaled by s * 0.5 is s across
add_marker_plane(g, marker_id, center_point, normal_vector, size_mm) ==
    [id     |-> marker_id,
     pos    |-> VAdd(center_point, VScale(normal_vector, mm(g.EPS))),
     normal |-> normal_vector,
     size   |-> 2 * Half(mm(size_mm))]

\* faulty variant of corner_center: the inset leaves out the margin
corner_center_no_margin(g, width_mm, height_mm, corner_label) ==
    LET inset == Half(g.MARKER_SIZE)
        max_x == width_mm - inset
        max_y == height_mm - inset
    IN  CASE corner_label = "BL" -> [raised |-> "none", u |-> inset, v |-> inset]
          [] corner_label = "BR" -> [raised |-> "none", u |-> max_x, v |-> inset]
          [] corner_label = "TL" -> [raised |-> "none", u |-> inset, v |-> max_y]
          [] corner_label = "TR" -> [raised |-> "none", u |-> max_x, v |-> max_y]
          [] OTHER -> [raised |-> "ValueError", u |-> 0, v |-> 0]

\* corner_center: the pair returned, or the ValueError raised
corner_center(g, width_mm, height_mm, corner_label) ==
    LET inset == g.MARGIN + Half(g.MARKER_SIZE)
        max_x == width_mm - inset
        max_y == height_mm - inset
    IN  CASE corner_label = "BL" -> [raised |-> "none", u |-> inset, v |-> inset]
          [] corner_label = "BR" -> [raised |-> "none", u |-> max_x, v |-> inset]
          [] corner_label = "TL" -> [raised |-> "none", u |-> inset, v |-> max_y]
          [] corner_label = "TR" -> [raised |-> "none", u |-> max_x, v |-> max_y]
          [] OTHER -> [raised |-> "ValueError", u |-> 0, v |-> 0]

\* faulty variant of marker_extent: the checker's active area instead of the panel
marker_extent_active(g, panel) ==
    IF panel = "right"
    THEN <<g.CHECKER_ROWS * g.SQUARE_SIZE, g.CHECKER_ROWS * g.SQUARE_SIZE>>
    ELSE <<g.CHECKER_COLS * g.SQUARE_SIZE, g.CHECKER_ROWS * g.SQUARE_SIZE>>

\* the width and height place_markers passes to corner_center for a panel
marker_extent(g, panel) ==
    IF panel = "right" THEN <<g.PANEL_H, g.PANEL_H>> ELSE <<g.PANEL_W, g.PANEL_H>>

\* faulty variant of marker_origin: the walls' origins are on the ground
marker_origin_on_ground(g, panel) ==
    CASE panel = "floor" -> Vector(0, 0, 0)
      [] panel = "back"  -> Vector(0, mm(g.PANEL_H), 0)
      [] panel = "right" -> Vector(mm(g.PANEL_W), 0, 0)

\* the origin place_markers passes to panel_point for a panel
marker_origin(g, panel) ==
    CASE panel = "floor" -> Vector(0, 0, 0)
      [] panel = "back"  -> Vector(0, mm(g.PANEL_H), mm(g.PANEL_THICK))
      [] panel = "right" -> Vector(mm(g.PANEL_W), 0, mm(g.PANEL_THICK))

marker_normal(panel) ==
    CASE panel = "floor" -> Vector(0, 0, 1)
      [] panel = "back"  -> Vector(0, -1, 0)
      [] panel = "right" -> Vector(-1, 0, 0)

marker_dir(panel) ==
    CASE panel = "floor" -> "Z"
      [] panel = "back"  -> "Y"
      [] panel = "right" -> "X"

\* the calls of place_markers, in order: marker id, panel, corner label
MarkerPlan ==
    << <<"8", "floor", "BL">>, <<"6", "floor", "BR">>, <<"7", "floor", "TL">>,
       <<"5", "back", "BL">>,  <<"1", "back", "TL">>,  <<"2", "back", "BR">>,
       <<"3", "back", "TR">>,  <<"4", "right", "TR">> >>

\* one add_marker_plane call of place_markers
place_marker(g, marker_id, panel, corner_label) ==
    LET wh == marker_extent(g, panel)
        c  == corner_center(g, wh[1], wh[2], corner_label)
    IN  add_marker_plane(g, marker_id,
            panel_point(g, marker_origin(g, panel), marker_dir(panel), c.u, c.v, 0),
            marker_normal(panel), g.MARKER_SIZE)

\* the planes place_markers creates when every marker image exists
place_markers(g) ==
    [i \in 1..Len(MarkerPlan) |->
        place_marker(g, MarkerPlan[i][1], MarkerPlan[i][2], MarkerPlan[i][3])]

---------------------------------------------------------------------------
(* Materials (lines 144-233); the node graph itself is the host's *)

\* make_checker_image: the raster's width and height in pixels
make_checker_image(cols, rows, px_per_square) ==
    [w |-> cols * px_per_square, h |-> rows * px_per_square]

\* faulty variant of pixel_is_black: the colours are exchanged
pixel_is_black_inverted(x, y, px_per_square) ==
    LET r == y \div px_per_square
        c == x \div px_per_square
    IN  (r + c) % 2 = 1

\* lines 153-162: the colour make_checker_image gives pixel (x, y), for
\* 0 <= x < w and 0 <= y < h
pixel_is_black(x, y, px_per_square) ==
    LET r == y \div px_per_square
        c == x \div px_per_square
    IN  (r + c) % 2 = 0

\* make_checker_material, lines 201-233: the mapping and mask parameters as
\* fractions <<numerator, denominator>>, or the ZeroDivisionError raised
make_checker_material(g, panel_w_mm, panel_h_mm) ==
    LET active_w == g.CHECKER_COLS * g.SQUARE_SIZE
        active_h == g.CHECKER_ROWS * g.SQUARE_SIZE
    IN  IF active_w = 0 \/ active_h = 0 \/ panel_w_mm = 0 \/ panel_h_mm = 0
        THEN [raised |-> "ZeroDivisionError",
              scale_u |-> <<0, 1>>, scale_v |-> <<0, 1>>,
              offset_u |-> <<0, 1>>, offset_v |-> <<0, 1>>,
              margin_u_min |-> <<0, 1>>, margin_v_min |-> <<0, 1>>]
        ELSE [raised |-> "none",
              scale_u |-> <<panel_w_mm, active_w>>,
              scale_v |-> <<panel_h_mm, active_h>>,
              offset_u |-> <<-g.MARGIN, active_w>>,
              offset_v |-> <<-g.MARGIN, active_h>>,
              margin_u_min |-> <<g.MARGIN, panel_w_mm>>,
              margin_v_min |-> <<g.MARGIN, panel_h_mm>>]

\* the three calls of main, lines 825-827
checker_materials(g) ==
    << make_checker_material(g, g.PANEL_W, g.PANEL_H),
       make_checker_material(g, g.PANEL_W, g.PANEL_H),
       make_checker_material(g, g.PANEL_H, g.PANEL_H) >>

\* The node graph of make_checker_material (lines 226-296), evaluated at a
\* UV point.  Numbers are fractions <<numerator, denominator>>.
frac_less(a, b) ==
    IF a[2] * b[2] > 0 THEN a[1] * b[2] < b[1] * a[2]
    ELSE a[1] * b[2] > b[1] * a[2]

\* faulty variant of math_greater_than: the boundary passes
math_greater_or_equal(a, b) == IF frac_less(a, b) THEN 0 ELSE 1

\* ShaderNodeMath, operation GREATER_THAN (lines 236-239, 247-250)
math_greater_than(a, b) == IF frac_less(b, a) THEN 1 ELSE 0

\* ShaderNodeMath, operation LESS_THAN (lines 241-244, 252-255)
math_less_than(a, b) == IF frac_less(a, b) THEN 1 ELSE 0

\* ShaderNodeMath, operation MULTIPLY (lines 258-268)
math_multiply(a, b) == a * b

\* lines 231, 233: 1.0 - margin_min
one_minus(a) == <<a[2] - a[1], a[2]>>

\* lines 271-282: the value of the mask node at UV (u, v) for a material
mask_value(mat, u, v) ==
    LET margin_u_max == one_minus(mat.margin_u_min)
        margin_v_max == one_minus(mat.margin_v_min)
        u_ok == math_multiply(math_greater_than(u, mat.margin_u_min),
                              math_less_than(u, margin_u_max))
        v_ok == math_multiply(math_greater_than(v, mat.margin_v_min),
                              math_less_than(v, margin_v_max))
    IN  math_multiply(u_ok, v_ok)

\* lines 285-295: the MixRGB node, Color1 the flat margin colour, Color2 the
\* checker texture, Fac the mask
mix_color(mat, u, v) ==
    IF mask_value(mat, u, v) = 1 THEN "checker" ELSE "margin"

\* arithmetic on fractions, kept in lowest terms with a positive denominator
RECURSIVE gcd(_, _)
gcd(a, b) == IF b = 0 THEN a ELSE gcd(b, a % b)

frac_reduce(a) ==
    LET g == gcd(Abs(a[1]), Abs(a[2]))
        s == IF a[2] < 0 THEN -1 ELSE 1
    IN  <<s * (a[1] \div g), s * (a[2] \div g)>>

frac_mul(a, b) ==
    LET x == frac_reduce(<<a[1], b[2]>>)
        y == frac_reduce(<<b[1], a[2]>>)
    IN  frac_reduce(<<x[1] * y[1], x[2] * y[2]>>)

frac_add(a, b) ==
    LET x == frac_reduce(a)
        y == frac_reduce(b)
    IN  frac_reduce(<<x[1] * y[2] + y[1] * x[2], x[2] * y[2]>>)

\* ShaderNodeMapping of type POINT with no rotation (lines 197-216): the
\* texture coordinate of UV coordinate u is u * Scale + Location
mapping_point(u, scale, location) == frac_add(frac_mul(u, scale), location)

---------------------------------------------------------------------------
(* main() of the forward script (lines 790-839), one action per step *)

\* what the host scene holds when the script starts
InitialScene == ("Cube" :> Solid(Box(Vector(-2, -2, -2), Vector(2, 2, 2)), {}))

Raise(e) ==
    /\ err' = e
    /\ pc' = "aborted"

\* lines 794-806: dims = load_dimensions(), assigned to the globals; an
\* exception of the parser leaves main() before any global is assigned
Load ==
    /\ pc = "load"
    /\ IF parse_raised(doc, G) # "none"
       THEN /\ Raise(parse_raised(doc, G))
            /\ UNCHANGED <<G, warned>>
       ELSE /\ G' = load_dimensions(G, doc)
            /\ warned' = size_warning(G')
            /\ pc' = "validate"
            /\ err' = err
    /\ UNCHANGED <<classifier, doc, present, scene, markers, calls, mats, exported>>

\* faulty variant of ValidateMarkerFiles: the check is left out
ValidateMarkerFiles_skipped ==
    /\ pc = "validate"
    /\ pc' = "clear"
    /\ UNCHANGED <<classifier, G, doc, present, warned, scene, markers, calls, mats, exported, err>>

\* lines 808-811: every marker image must exist
ValidateMarkerFiles ==
    /\ pc = "validate"
    /\ IF present # MarkerIds
       THEN Raise("FileNotFoundError")
       ELSE pc' = "clear" /\ err' = err
    /\ UNCHANGED <<classifier, G, doc, present, warned, scene, markers, calls, mats, exported>>

\* lines 813-814: clear_scene(), set_units_mm_display()
ClearScene ==
    /\ pc = "clear"
    /\ scene' = <<>>
    /\ markers' = <<>>
    /\ calls' = Append(calls, "delete:all")
    /\ pc' = "floor"
    /\ UNCHANGED <<classifier, G, doc, present, warned, mats, exported, err>>

\* line 817: floor = add_floor()
AddFloor ==
    /\ pc = "floor"
    /\ scene' = ("Floor" :> add_floor(G)) @@ scene
    /\ calls' = calls \o <<"cube:Floor", "cube:CutoutBox", "boolean:Floor",
                           "delete:CutoutBox">>
    /\ pc' = "back"
    /\ UNCHANGED <<classifier, G, doc, present, warned, markers, mats, exported, err>>

\* line 818: back = add_back_wall()
AddBackWall ==
    /\ pc = "back"
    /\ scene' = ("BackWall" :> add_back_wall(G)) @@ scene
    /\ calls' = Append(calls, "cube:BackWall")
    /\ pc' = "right"
    /\ UNCHANGED <<classifier, G, doc, present, warned, markers, mats, exported, err>>

\* line 819: right = add_right_wall()
AddRightWall ==
    /\ pc = "right"
    /\ scene' = ("RightWall" :> add_right_wall(G)) @@ scene
    /\ calls' = Append(calls, "cube:RightWall")
    /\ pc' = "image"
    /\ UNCHANGED <<classifier, G, doc, present, warned, markers, mats, exported, err>>

\* line 822: checker_img = make_checker_image(..., px_per_square=256).  What
\* the host does with a width or height below 1 is not the script's to say:
\* it may refuse the image or make it.
MakeCheckerImage ==
    /\ pc = "image"
    /\ LET img == make_checker_image(G.CHECKER_COLS, G.CHECKER_ROWS, 256)
       IN  \E accepted \in (IF img.w >= 1 /\ img.h >= 1 THEN {TRUE} ELSE BOOLEAN) :
              IF accepted
              THEN /\ calls' = Append(calls, "image")
                   /\ pc' = "materials"
                   /\ err' = err
              ELSE /\ calls' = calls
                   /\ Raise("HostError")
    /\ UNCHANGED <<classifier, G, doc, present, warned, scene, markers, mats, exported>>

\* the index of the first element of seq that satisfies raised, or Len + 1
FirstRaised(seq) ==
    IF \E i \in 1..Len(seq) : seq[i].raised # "none"
    THEN CHOOSE i \in 1..Len(seq) :
            /\ seq[i].raised # "none"
            /\ \A j \in 1..(i - 1) : seq[j].raised = "none"
    ELSE Len(seq) + 1

\* lines 825-830: the three checker materials, then
\* apply_checker_to_inside_faces
MakeCheckerMaterials ==
    /\ pc = "materials"
    /\ LET ms == checker_materials(G)
           k  == FirstRaised(ms)
       IN  /\ mats' = mats \o SubSeq(ms, 1, k - 1)
           /\ IF k <= Len(ms)
              THEN Raise(ms[k].raised)
              ELSE pc' = "markers" /\ err' = err
    /\ UNCHANGED <<classifier, G, doc, present, warned, scene, markers, calls, exported>>

\* the index in MarkerPlan of the first marker whose image is missing
FirstMissing(files) ==
    IF \E i \in 1..Len(MarkerPlan) : MarkerPlan[i][1] \notin files
    THEN CHOOSE i \in 1..Len(MarkerPlan) :
            /\ MarkerPlan[i][1] \notin files
            /\ \A j \in 1..(i - 1) : MarkerPlan[j][1] \in files
    ELSE Len(MarkerPlan) + 1

\* lines 833-836: place_markers(); create_marker_material raises at the
\* first marker whose image is missing (line 324), before its plane is made
PlaceMarkers ==
    /\ pc = "markers"
    /\ LET planes == place_markers(G)
           k      == FirstMissing(present)
       IN  /\ markers' = markers \o SubSeq(planes, 1, k - 1)
           /\ calls' = calls \o [i \in 1..(k - 1) |-> "plane"]
           /\ IF k <= Len(planes)
              THEN Raise("FileNotFoundError")
              ELSE pc' = "export" /\ err' = err
    /\ UNCHANGED <<classifier, G, doc, present, warned, scene, mats, exported>>

\* faulty variant of Export: main does not end after the export
Export_repeated ==
    /\ pc = "export"
    /\ exported < 2
    /\ exported' = exported + 1
    /\ calls' = Append(calls, "export")
    /\ pc' = IF exported = 1 THEN "done" ELSE "export"
    /\ UNCHANGED <<classifier, G, doc, present, warned, scene, markers, mats, err>>

\* line 839: export_glb(EXPORT_PATH)
Export ==
    /\ pc = "export"
    /\ exported' = exported + 1
    /\ calls' = Append(calls, "export")
    /\ pc' = "done"
    /\ UNCHANGED <<classifier, G, doc, present, warned, scene, markers, mats, err>>

---------------------------------------------------------------------------
(* Spec: a run of main() against an override document *)

Init ==
    /\ pc = "load"
    /\ G = Defaults
    /\ doc \in Docs
    /\ present \in {MarkerIds, MarkerIds \ {"4"}}
    /\ warned = FALSE
    /\ scene = InitialScene
    /\ markers = <<>>
    /\ calls = <<>>
    /\ mats = <<>>
    /\ exported = 0
    /\ err = "none"
    /\ parts = <<>>
    /\ materials = <<>>
    /\ panels = <<>>
    /\ floor = None
    /\ walls = <<>>

Next ==
    \/ Load
    \/ ValidateMarkerFiles
    \/ ClearScene
    \/ AddFloor
    \/ AddBackWall
    \/ AddRightWall
    \/ MakeCheckerImage
    \/ MakeCheckerMaterials
    \/ PlaceMarkers
    \/ Export

Spec == Init /\ [][Next]_vars

---------------------------------------------------------------------------
(* SpecGeom: the geometry of main() for every resolved configuration of a  *)
(* small grid.  The run starts where load_dimensions has returned, with    *)
(* the globals holding a configuration an override document can produce.   *)

EvenUpTo(n) == {2 * k : k \in 1..n}

GeomConfigs ==
    {derive_panel(
        [PANEL_W |-> w, PANEL_H |-> h, PANEL_THICK |-> t,
         CHECKER_COLS |-> 2, CHECKER_ROWS |-> 1, SQUARE_SIZE |-> 2,
         MARGIN |-> m, MARKER_SIZE |-> s, EPS |-> 2,
         CUTOUT_WIDTH |-> cw, CUTOUT_DEPTH |-> cd, OVERLAP |-> o]) :
        w \in EvenUpTo(MaxPanel), h \in EvenUpTo(MaxPanel),
        t \in EvenUpTo(MaxThick), o \in {0} \cup EvenUpTo(MaxOverlap),
        cw \in EvenUpTo(MaxCutout), cd \in EvenUpTo(MaxCutout),
        m \in EvenUpTo(MaxMargin), s \in EvenUpTo(MaxMarker)}

InitGeom ==
    /\ pc = "validate"
    /\ G \in GeomConfigs
    /\ doc = [exists |-> FALSE, lines |-> <<>>]
    /\ present = MarkerIds
    /\ warned = size_warning(G)
    /\ scene = InitialScene
    /\ markers = <<>>
    /\ calls = <<>>
    /\ mats = <<>>
    /\ exported = 0
    /\ err = "none"
    /\ parts = <<>>
    /\ materials = <<>>
    /\ panels = <<>>
    /\ floor = None
    /\ walls = <<>>

NextGeom ==
    \/ ValidateMarkerFiles
    \/ ClearScene
    \/ AddFloor
    \/ AddBackWall
    \/ AddRightWall
    \/ MakeCheckerImage
    \/ MakeCheckerMaterials
    \/ PlaceMarkers
    \/ Export

SpecGeom == InitGeom /\ [][NextGeom]_vars

---------------------------------------------------------------------------
(* The classifier script (DesignBglb.py): the loose parts of an imported   *)
(* model are given a material by size, ranked by bounding-box volume and   *)
(* given the roles floor / left wall / right wall; markers are placed on   *)
(* the outer faces and the scene is exported.  World coordinates are in    *)
(* the unit used above, lengths in mm in ticks.                            *)

\* line 42
MARKER_SIZE_MM == 420

\* line 43
MARKER_EPS_MM == 2

\* line 44
SMALL_PART_MAX_EXTENT_MM == 1000

\* most parts a separation yields
MaxParts == 4

\* lines 212-216: transforms are applied (line 463), so the world bounding
\* box of a part is the box of its vertices
get_world_bbox(obj) == Box(obj.mn, obj.mx)

\* ext = mx - mn (lines 220, 353, 365)
extent(obj) ==
    LET b == get_world_bbox(obj)
    IN  Vector(b.mx.x - b.mn.x, b.mx.y - b.mn.y, b.mx.z - b.mn.z)

\* sorted(s, key=..., reverse=reverse) / list.sort, with keys[i] the key of
\* s[i]: a stable sort, equal keys keep their original order also when
\* reverse is set
sorted(s, keys, reverse) ==
    LET n == Len(s)
        before(j, i) ==
            \/ IF reverse THEN keys[j] > keys[i] ELSE keys[j] < keys[i]
            \/ keys[j] = keys[i] /\ j < i
        rank(i) == Cardinality({j \in 1..n : before(j, i)}) + 1
    IN  [k \in 1..n |-> s[CHOOSE i \in 1..n : rank(i) = k]]

\* faulty variant of guess_panel_normal_axis: of equal extents the last axis wins
guess_panel_normal_axis_last_tie(obj) ==
    LET ext  == extent(obj)
        axes == << <<"Z", ext.z>>, <<"Y", ext.y>>, <<"X", ext.x>> >>
    IN  sorted(axes, [i \in 1..3 |-> axes[i][2]], FALSE)[1][1]

\* lines 218-223
guess_panel_normal_axis(obj) ==
    LET ext  == extent(obj)
        axes == << <<"X", ext.x>>, <<"Y", ext.y>>, <<"Z", ext.z>> >>
    IN  sorted(axes, [i \in 1..3 |-> axes[i][2]], FALSE)[1][1]

\* lines 225-230
normal_vector_from_axis(axis, outward) ==
    IF axis = "X" THEN (IF outward THEN Vector(1, 0, 0) ELSE Vector(-1, 0, 0))
    ELSE IF axis = "Y" THEN (IF outward THEN Vector(0, 1, 0) ELSE Vector(0, -1, 0))
    ELSE (IF outward THEN Vector(0, 0, 1) ELSE Vector(0, 0, -1))

\* lines 238-337: the plane make_marker_plane creates (its material and UVs
\* aside); scale is the factor size_m / 2.0 applied to the plane primitive
make_marker_plane(marker_id, location, normal_world, size_mm) ==
    [id     |-> marker_id,
     pos    |-> location,
     normal |-> normal_world,
     scale  |-> Half(mm(size_mm))]

\* faulty variant of assign_material_by_size: a part of exactly the
\* threshold is large
assign_material_by_size_strict(objects) ==
    [i \in 1..Len(objects) |->
        LET ext        == extent(objects[i])
            max_extent == Max(Max(ext.x, ext.y), ext.z) \div MM_TO_M
        IN  IF max_extent < SMALL_PART_MAX_EXTENT_MM
            THEN "Laminate_Black" ELSE "Laminate_White"]

\* lines 350-361: the material put in slot 0 of each object; the extent in
\* mm is the world extent * 1000
assign_material_by_size(objects) ==
    [i \in 1..Len(objects) |->
        LET ext        == extent(objects[i])
            ext_mm     == Vector(ext.x \div MM_TO_M, ext.y \div MM_TO_M,
                                 ext.z \div MM_TO_M)
            max_extent == Max(Max(ext_mm.x, ext_mm.y), ext_mm.z)
        IN  IF max_extent <= SMALL_PART_MAX_EXTENT_MM
            THEN "Laminate_Black" ELSE "Laminate_White"]

\* lines 363-366
bbox_volume(o) ==
    LET ext == extent(o) IN ext.x * ext.y * ext.z

\* lines 373-377: the loop of pick_floor_and_walls from candidate k on
RECURSIVE pick_loop(_, _, _, _)
pick_loop(candidates, k, fl, ws) ==
    IF k > Len(candidates) THEN [floor |-> fl, walls |-> ws]
    ELSE LET p == candidates[k]
         IN  IF guess_panel_normal_axis(p) = "Z" /\ fl = None
             THEN pick_loop(candidates, k + 1, p, ws)
             ELSE pick_loop(candidates, k + 1, fl, Append(ws, p))

\* faulty variant of pick_floor_and_walls: the largest candidate is always the floor
pick_floor_and_walls_largest(candidates) ==
    IF Len(candidates) = 0
    THEN [raised |-> "IndexError", floor |-> None, walls |-> <<>>]
    ELSE [raised |-> "none", floor |-> candidates[1], walls |-> Tail(candidates)]

\* lines 368-381; panels[0] of an empty list raises IndexError
pick_floor_and_walls(candidates) ==
    LET r == pick_loop(candidates, 1, None, <<>>)
    IN  IF r.floor = None
        THEN IF Len(candidates) = 0
             THEN [raised |-> "IndexError", floor |-> None, walls |-> <<>>]
             ELSE [raised |-> "none", floor |-> candidates[1],
                   walls |-> Tail(candidates)]
        ELSE [raised |-> "none", floor |-> r.floor, walls |-> r.walls]

\* faulty variant of panel_corners_for_face: on an X-normal face BR and TL are swapped
panel_corners_for_face_swapped(panel_obj, normal_axis, use_max_side) ==
    LET b  == get_world_bbox(panel_obj)
        mn == b.mn
        mx == b.mx
    IN  IF normal_axis = "Z"
        THEN LET z == IF use_max_side THEN mx.z ELSE mn.z
             IN  [BL |-> Vector(mn.x, mn.y, z), BR |-> Vector(mx.x, mn.y, z),
                  TL |-> Vector(mn.x, mx.y, z), TR |-> Vector(mx.x, mx.y, z)]
        ELSE IF normal_axis = "X"
        THEN LET x == IF use_max_side THEN mx.x ELSE mn.x
             IN  [BL |-> Vector(x, mn.y, mn.z), BR |-> Vector(x, mn.y, mx.z),
                  TL |-> Vector(x, mx.y, mn.z), TR |-> Vector(x, mx.y, mx.z)]
        ELSE LET y == IF use_max_side THEN mx.y ELSE mn.y
             IN  [BL |-> Vector(mn.x, y, mn.z), BR |-> Vector(mx.x, y, mn.z),
                  TL |-> Vector(mn.x, y, mx.z), TR |-> Vector(mx.x, y, mx.z)]

\* lines 383-414
panel_corners_for_face(panel_obj, normal_axis, use_max_side) ==
    LET b  == get_world_bbox(panel_obj)
        mn == b.mn
        mx == b.mx
    IN  IF normal_axis = "Z"
        THEN LET z == IF use_max_side THEN mx.z ELSE mn.z
             IN  [BL |-> Vector(mn.x, mn.y, z), BR |-> Vector(mx.x, mn.y, z),
                  TL |-> Vector(mn.x, mx.y, z), TR |-> Vector(mx.x, mx.y, z)]
        ELSE IF normal_axis = "X"
        THEN LET x == IF use_max_side THEN mx.x ELSE mn.x
             IN  [BL |-> Vector(x, mn.y, mn.z), BR |-> Vector(x, mx.y, mn.z),
                  TL |-> Vector(x, mn.y, mx.z), TR |-> Vector(x, mx.y, mx.z)]
        ELSE LET y == IF use_max_side THEN mx.y ELSE mn.y
             IN  [BL |-> Vector(mn.x, y, mn.z), BR |-> Vector(mx.x, y, mn.z),
                  TL |-> Vector(mn.x, y, mx.z), TR |-> Vector(mx.x, y, mx.z)]

\* lines 498-500
center_x(o) ==
    LET b == get_world_bbox(o) IN Half(b.mn.x + b.mx.x)

\* line 503
left_wall == IF Len(walls) > 0 THEN walls[1] ELSE None

\* line 504
right_wall == IF Len(walls) > 1 THEN walls[2] ELSE None

\* eps_m (line 506)
eps_m == mm(MARKER_EPS_MM)

\* lines 514-524: markers 6, 8, 7 on the floor
floor_markers(fl) ==
    LET floor_axis    == guess_panel_normal_axis(fl)
        floor_n       == normal_vector_from_axis(floor_axis, TRUE)
        floor_corners == panel_corners_for_face(fl, floor_axis, TRUE)
        lift          == VScale(floor_n, eps_m)
    IN  << make_marker_plane("6", VAdd(floor_corners.BR, lift), floor_n, MARKER_SIZE_MM),
           make_marker_plane("8", VAdd(floor_corners.BL, lift), floor_n, MARKER_SIZE_MM),
           make_marker_plane("7", VAdd(floor_corners.TL, lift), floor_n, MARKER_SIZE_MM) >>

\* lines 527-533: markers 1, 5 on the left wall
left_wall_markers(wall) ==
    IF wall = None THEN <<>>
    ELSE LET ax   == guess_panel_normal_axis(wall)
             n    == normal_vector_from_axis(ax, TRUE)
             c    == panel_corners_for_face(wall, ax, TRUE)
             lift == VScale(n, eps_m)
         IN  << make_marker_plane("1", VAdd(c.TL, lift), n, MARKER_SIZE_MM),
                make_marker_plane("5", VAdd(c.BL, lift), n, MARKER_SIZE_MM) >>

\* lines 536-541: marker 4 on the right wall
right_wall_markers(wall) ==
    IF wall = None THEN <<>>
    ELSE LET ax   == guess_panel_normal_axis(wall)
             n    == normal_vector_from_axis(ax, TRUE)
             c    == panel_corners_for_face(wall, ax, TRUE)
             lift == VScale(n, eps_m)
         IN  << make_marker_plane("4", VAdd(c.TR, lift), n, MARKER_SIZE_MM) >>

\* faulty variant of spine_markers: the top spine plane is given id 1 again
spine_markers_repeated(wall) ==
    IF wall = None THEN <<>>
    ELSE LET ax   == guess_panel_normal_axis(wall)
             n    == normal_vector_from_axis(ax, TRUE)
             c    == panel_corners_for_face(wall, ax, TRUE)
             lift == VScale(n, eps_m)
             mid  == VHalf(VAdd(c.TR, c.BR))
         IN  << make_marker_plane("1", VAdd(c.TR, lift), n, MARKER_SIZE_MM),
                make_marker_plane("2", VAdd(mid, lift), n, MARKER_SIZE_MM) >>

\* lines 547-556: markers 3, 2 on the left wall
spine_markers(wall) ==
    IF wall = None THEN <<>>
    ELSE LET ax   == guess_panel_normal_axis(wall)
             n    == normal_vector_from_axis(ax, TRUE)
             c    == panel_corners_for_face(wall, ax, TRUE)
             lift == VScale(n, eps_m)
             mid  == VHalf(VAdd(c.TR, c.BR))
         IN  << make_marker_plane("3", VAdd(c.TR, lift), n, MARKER_SIZE_MM),
                make_marker_plane("2", VAdd(mid, lift), n, MARKER_SIZE_MM) >>

\* lines 512-556: the planes main() creates when every marker image exists
classifier_markers(fl, lw, rw) ==
    floor_markers(fl) \o left_wall_markers(lw) \o right_wall_markers(rw)
        \o spine_markers(lw)

\* the index of the first plane whose image is missing (line 190)
FirstMissingPlane(planes, files) ==
    IF \E i \in 1..Len(planes) : planes[i].id \notin files
    THEN CHOOSE i \in 1..Len(planes) :
            /\ planes[i].id \notin files
            /\ \A j \in 1..(i - 1) : planes[j].id \in files
    ELSE Len(planes) + 1

\* the bounding boxes a loose part of the imported model may have
PartBox(mn, ext) == Box(mn, VAdd(mn, ext))

PartBoxes ==
    { PartBox(Vector(0, 0, 0),     Vector(2400, 2000, 40)),   \* Z-thin plate
      PartBox(Vector(200, 200, 40), Vector(400, 400, 20)),    \* small Z-thin plate
      PartBox(Vector(2400, 0, 0),  Vector(40, 2000, 2000)),   \* X-thin plate, 25 mm
      PartBox(Vector(0, 2000, 0),  Vector(2400, 40, 2000)),   \* Y-thin plate
      PartBox(Vector(-40, 0, 0),   Vector(40, 2000, 1800)),   \* X-thin plate
      PartBox(Vector(0, 0, 0),     Vector(40, 40, 40)),       \* cube
      PartBox(Vector(0, 0, 0),     Vector(100, 40, 40)) }     \* bar along X

\* lines 339-348: the mesh objects selected after the separation
separate_loose_parts(boxes) ==
    [i \in 1..Len(boxes) |-> [name |-> i, mn |-> boxes[i].mn, mx |-> boxes[i].mx]]

\* lines 424-433: every marker image must exist
CheckMarkerFiles ==
    /\ pc = "files"
    /\ IF present # MarkerIds
       THEN Raise("FileNotFoundError")
       ELSE pc' = "base" /\ err' = err
    /\ UNCHANGED <<forward, classifier, present, scene, markers, calls, exported>>

\* lines 435-463: the base mesh is a selected mesh, else the largest mesh
\* of the scene; a scene without a mesh is an error
SelectBase ==
    /\ pc = "base"
    /\ IF DOMAIN scene = {}
       THEN Raise("RuntimeError")
       ELSE pc' = "separate" /\ err' = err
    /\ UNCHANGED <<forward, classifier, present, scene, markers, calls, exported>>

\* faulty variant of SeparateLooseParts: an empty result is not checked
SeparateLooseParts_unchecked ==
    /\ pc = "separate"
    /\ \E boxes \in SeqsUpTo(PartBoxes, MaxParts) :
          parts' = separate_loose_parts(boxes)
    /\ pc' = "assign"
    /\ UNCHANGED <<forward, materials, panels, floor, walls, present, scene,
                   markers, calls, exported, err>>

\* lines 480-482: parts = separate_loose_parts(base)
SeparateLooseParts ==
    /\ pc = "separate"
    /\ \E boxes \in SeqsUpTo(PartBoxes, MaxParts) :
          /\ parts' = separate_loose_parts(boxes)
          /\ IF Len(boxes) = 0
             THEN Raise("RuntimeError")
             ELSE pc' = "assign" /\ err' = err
    /\ UNCHANGED <<forward, materials, panels, floor, walls, present, scene,
                   markers, calls, exported>>

\* line 484
AssignMaterialBySize ==
    /\ pc = "assign"
    /\ materials' = assign_material_by_size(parts)
    /\ pc' = "rank"
    /\ UNCHANGED <<forward, parts, panels, floor, walls, present, scene,
                   markers, calls, exported, err>>

\* lines 487-491: the three biggest parts
RankPanels ==
    /\ pc = "rank"
    /\ LET parts_sorted ==
               sorted(parts, [i \in 1..Len(parts) |-> bbox_volume(parts[i])], TRUE)
       IN  panels' = SubSeq(parts_sorted, 1, Min(3, Len(parts_sorted)))
    /\ pc' = "pick"
    /\ UNCHANGED <<forward, parts, materials, floor, walls, present, scene,
                   markers, calls, exported, err>>

\* lines 492-495
PickFloorAndWalls ==
    /\ pc = "pick"
    /\ LET r == pick_floor_and_walls(panels)
       IN  /\ floor' = r.floor
           /\ walls' = r.walls
           /\ IF r.raised # "none" THEN Raise(r.raised)
              ELSE IF r.floor = None THEN Raise("RuntimeError")
              ELSE pc' = "order" /\ err' = err
    /\ UNCHANGED <<forward, parts, materials, panels, present, scene,
                   markers, calls, exported>>

\* faulty variant of OrderWalls: the walls stay in the order of their volume
OrderWalls_unsorted ==
    /\ pc = "order"
    /\ walls' = walls
    /\ pc' = "place"
    /\ UNCHANGED <<forward, parts, materials, panels, floor, present, scene,
                   markers, calls, exported, err>>

\* lines 498-504: the walls by the X of their centre
OrderWalls ==
    /\ pc = "order"
    /\ walls' = sorted(walls, [i \in 1..Len(walls) |-> center_x(walls[i])], FALSE)
    /\ pc' = "place"
    /\ UNCHANGED <<forward, parts, materials, panels, floor, present, scene,
                   markers, calls, exported, err>>

\* lines 506-556: create_marker_material raises at the first marker whose
\* image is missing (line 191), before its plane is made
PlaceMarkerPlanes ==
    /\ pc = "place"
    /\ LET planes == classifier_markers(floor, left_wall, right_wall)
           k      == FirstMissingPlane(planes, present)
       IN  /\ markers' = markers \o SubSeq(planes, 1, k - 1)
           /\ calls' = calls \o [i \in 1..(k - 1) |-> "plane"]
           /\ IF k <= Len(planes)
              THEN Raise("FileNotFoundError")
              ELSE pc' = "export_glb" /\ err' = err
    /\ UNCHANGED <<forward, classifier, present, scene, exported>>

\* lines 561-588: the exporter is invoked once; its failure is re-raised
\* as RuntimeError
ExportGlb ==
    /\ pc = "export_glb"
    /\ exported' = exported + 1
    /\ calls' = Append(calls, "export")
    /\ \E ok \in BOOLEAN :
          IF ok THEN pc' = "done" /\ err' = err ELSE Raise("RuntimeError")
    /\ UNCHANGED <<forward, classifier, present, scene, markers>>

InitClassify ==
    /\ pc = "files"
    /\ G = Defaults
    /\ doc = [exists |-> FALSE, lines |-> <<>>]
    /\ present \in {MarkerIds, MarkerIds \ {"4"}}
    /\ warned = FALSE
    /\ scene \in {<<>>, InitialScene}
    /\ markers = <<>>
    /\ calls = <<>>
    /\ mats = <<>>
    /\ exported = 0
    /\ err = "none"
    /\ parts = <<>>
    /\ materials = <<>>
    /\ panels = <<>>
    /\ floor = None
    /\ walls = <<>>

NextClassify ==
    \/ CheckMarkerFiles
    \/ SelectBase
    \/ SeparateLooseParts
    \/ AssignMaterialBySize
    \/ RankPanels
    \/ PickFloorAndWalls
    \/ OrderWalls
    \/ PlaceMarkerPlanes
    \/ ExportGlb

SpecClassify == InitClassify /\ [][NextClassify]_vars

---------------------------------------------------------------------------
(* SpecRuns: a run of either script while the marker images may disappear  *)
(* from disk.  Both scripts test os.path.exists once when main() starts    *)
(* and again in create_marker_material, so a file can vanish in between.   *)

\* the marker images that may disappear during a run
Vanishing == {"7", "4"}

\* the sets of marker images that may be absent when a run starts; they do
\* not meet Vanishing, so image 8 is absent exactly in the runs that
\* started without it
AbsentAtStart == {{"8"}, {"8", "2"}}

\* the environment deletes one marker image while main() runs
FileVanishes ==
    /\ pc \notin {"done", "aborted"}
    /\ present = MarkerIds
    /\ \E id \in Vanishing : present' = present \ {id}
    /\ UNCHANGED <<forward, classifier, pc, scene, markers, calls, exported, err>>

InitRuns ==
    /\ pc \in {"load", "files"}
    /\ G = Defaults
    /\ doc \in {[exists |-> FALSE, lines |-> <<>>]}
               \cup {[exists |-> TRUE, lines |-> <<l>>] : l \in DocLines}
    /\ pc = "files" => ~doc.exists
    /\ present \in {MarkerIds} \cup {MarkerIds \ gone : gone \in AbsentAtStart}
    /\ warned = FALSE
    /\ scene = InitialScene
    /\ markers = <<>>
    /\ calls = <<>>
    /\ mats = <<>>
    /\ exported = 0
    /\ err = "none"
    /\ parts = <<>>
    /\ materials = <<>>
    /\ panels = <<>>
    /\ floor = None
    /\ walls = <<>>

\* a step of main(), of either script
MainStep == Next \/ NextClassify

NextRuns == MainStep \/ FileVanishes

SpecRuns == InitRuns /\ [][NextRuns]_vars

---------------------------------------------------------------------------
(* Measures used by the properties *)

\* the box two boxes share (mn >= mx on some axis when they share none)
Intersect(a, b) ==
    Box(Vector(Max(a.mn.x, b.mn.x), Max(a.mn.y, b.mn.y), Max(a.mn.z, b.mn.z)),
        Vector(Min(a.mx.x, b.mx.x), Min(a.mx.y, b.mx.y), Min(a.mx.z, b.mx.z)))

Volume(b) ==
    IF b.mx.x > b.mn.x /\ b.mx.y > b.mn.y /\ b.mx.z > b.mn.z
    THEN (b.mx.x - b.mn.x) * (b.mx.y - b.mn.y) * (b.mx.z - b.mn.z)
    ELSE 0

RECURSIVE CutVolume(_, _)
CutVolume(box, cut) ==
    IF cut = {} THEN 0
    ELSE LET c == CHOOSE c \in cut : TRUE
         IN  Volume(Intersect(box, c)) + CutVolume(box, cut \ {c})

\* volume of a solid whose cut boxes do not overlap one another
SolidVolume(s) == Volume(Box(s.mn, s.mx)) - CutVolume(Box(s.mn, s.mx), s.cut)

Built(name) == name \in DOMAIN scene

Loaded == pc # "load"

\* section 3 of the specification: positive counts, all lengths > 0
ValidPattern(g) ==
    /\ g.CHECKER_COLS > 0 /\ g.CHECKER_ROWS > 0
    /\ g.SQUARE_SIZE > 0 /\ g.MARGIN > 0 /\ g.MARKER_SIZE > 0 /\ g.EPS > 0
    /\ g.CUTOUT_WIDTH > 0 /\ g.CUTOUT_DEPTH > 0 /\ g.OVERLAP > 0

ValidConfig(g) ==
    ValidPattern(g) /\ g.PANEL_W > 0 /\ g.PANEL_H > 0 /\ g.PANEL_THICK > 0

Labels == {"BL", "BR", "TL", "TR"}

---------------------------------------------------------------------------
(* C1 *)

\* the override document holds an accepted line for key k
Supplied(k) == k \in DOMAIN parse_updates(doc, Defaults)

\* C1 (as claimed): for a valid configuration, a panel size the override
\* document does not supply is the derived one,
\* CHECKER_COLS * SQUARE_SIZE + 2 * MARGIN (and likewise the height from
\* CHECKER_ROWS), computed from the merged values.
C1_DerivedUnlessSupplied ==
    (Loaded /\ ValidConfig(G)) =>
        /\ ~Supplied("PANEL_W") =>
              G.PANEL_W = G.CHECKER_COLS * G.SQUARE_SIZE + 2 * G.MARGIN
        /\ ~Supplied("PANEL_H") =>
              G.PANEL_H = G.CHECKER_ROWS * G.SQUARE_SIZE + 2 * G.MARGIN

---------------------------------------------------------------------------
(* C2 *)

GeometryCalls == {"cube:Floor", "cube:CutoutBox", "cube:BackWall",
                  "cube:RightWall", "plane", "export"}

\* C2 (as claimed): a resolved configuration with a count or a length <= 0
\* is rejected before any geometry is built: no panel box, cutout box or
\* marker plane is ever created and the exporter is never invoked.
C2_InvalidRejectedBeforeGeometry ==
    (Loaded /\ ~ValidPattern(G)) =>
        /\ \A i \in 1..Len(calls) : calls[i] \notin GeometryCalls
        /\ markers = <<>>
        /\ exported = 0

---------------------------------------------------------------------------
(* C3 *)

Range(s) == {s[i] : i \in 1..Len(s)}

\* pick_floor_and_walls has returned to main()
Picked == floor # None

\* the candidates are the (up to) three parts of largest bounding-box
\* volume, largest first
TopThree ==
    /\ Len(panels) = Min(3, Len(parts))
    /\ Range(panels) \subseteq Range(parts)
    /\ \A i, j \in 1..Len(panels) :
          i < j => /\ panels[i] # panels[j]
                   /\ bbox_volume(panels[i]) >= bbox_volume(panels[j])
    /\ \A p \in Range(parts) \ Range(panels) :
          \A q \in Range(panels) : bbox_volume(q) >= bbox_volume(p)

\* ranks of the candidates whose thinnest axis is Z
ZRanks(candidates) ==
    {k \in 1..Len(candidates) : guess_panel_normal_axis(candidates[k]) = "Z"}

\* the floor C3 names: the first Z-normal candidate, else the largest
ClaimedFloor(candidates) ==
    IF ZRanks(candidates) # {}
    THEN candidates[CHOOSE k \in ZRanks(candidates) :
                        \A l \in ZRanks(candidates) : k <= l]
    ELSE candidates[1]

\* roles as C3 names them, for a result r of pick_floor_and_walls
RolesAsClaimed(candidates, r) ==
    /\ r.raised = "none"
    /\ r.floor = ClaimedFloor(candidates)
    /\ r.walls = SelectSeq(candidates, LAMBDA p : p # r.floor)
    /\ r.floor \notin Range(r.walls)

\* every non-empty list of up to three distinct parts
CandidateLists ==
    {c \in SeqsUpTo(Range(parts), 3) :
        /\ Len(c) > 0
        /\ \A i, j \in 1..Len(c) : i < j => c[i] # c[j]}

\* C3: over the top three parts by bounding-box volume, the floor is the
\* first candidate in ranking order whose normal axis is Z, or the largest
\* candidate when none is; the walls are exactly the other candidates, the
\* floor is never a wall, and pick_floor_and_walls raises for no non-empty
\* candidate list.
C3_FloorIsFirstZElseLargest ==
    /\ err # "IndexError"
    /\ pc \in {"order", "place", "export_glb", "done"} => Picked
    /\ pc = "pick" =>
          \A c \in CandidateLists : RolesAsClaimed(c, pick_floor_and_walls(c))
    /\ Picked =>
          /\ TopThree
          /\ floor = ClaimedFloor(panels)
          /\ Range(walls) = Range(panels) \ {floor}
          /\ Len(walls) = Len(panels) - 1
          /\ pc = "order" => walls = SelectSeq(panels, LAMBDA p : p # floor)

\* three candidates, the floor is a Z-normal candidate that is not the
\* largest
C3_Witness ==
    /\ Picked /\ pc = "order"
    /\ Len(panels) = 3
    /\ floor # panels[1]
    /\ guess_panel_normal_axis(floor) = "Z"

\* three candidates none of which is Z-normal: the largest is the floor
C3_FallbackReached ==
    /\ Picked /\ Len(panels) = 3 /\ ZRanks(panels) = {}
    /\ floor = panels[1]

---------------------------------------------------------------------------
(* C4 *)

OverlapValues == {0} \cup EvenUpTo(MaxOverlap + 1)

\* C4: OVERLAP moves no inside face.  In every state the floor's top face
\* is at z = PANEL_THICK, the back wall's minimum-y face at y = PANEL_H, the
\* right wall's minimum-x face at x = PANEL_W, and the markers placed are
\* those of the same configuration with any other OVERLAP >= 0; the same
\* faces and markers result from the builders for every other OVERLAP.
C4_OverlapKeepsInsideFaces ==
    /\ Built("Floor") => scene["Floor"].mx.z = mm(G.PANEL_THICK)
    /\ Built("BackWall") => scene["BackWall"].mn.y = mm(G.PANEL_H)
    /\ Built("RightWall") => scene["RightWall"].mn.x = mm(G.PANEL_W)
    /\ \A o \in OverlapValues :
          LET g2 == [G EXCEPT !.OVERLAP = o]
          IN  /\ Built("Floor") => add_floor(g2).mx.z = scene["Floor"].mx.z
              /\ Built("BackWall") => add_back_wall(g2).mn.y = scene["BackWall"].mn.y
              /\ Built("RightWall") => add_right_wall(g2).mn.x = scene["RightWall"].mn.x
              /\ pc \in {"export", "done"} => markers = place_markers(g2)

C4_Witness ==
    /\ pc = "done"
    /\ G.OVERLAP > 0
    /\ Built("Floor") /\ Built("BackWall") /\ Built("RightWall")
    /\ Len(markers) = 8
    /\ scene["Floor"].mx.x # add_floor([G EXCEPT !.OVERLAP = 0]).mx.x

---------------------------------------------------------------------------
(* C5 *)

PanelSizes == EvenUpTo(MaxPanel)

InMarginBox(c, w, h, margin) ==
    /\ c.raised = "none"
    /\ margin <= c.u /\ c.u <= w - margin
    /\ margin <= c.v /\ c.v <= h - margin

\* the example of the claim: W = 84, H = 70, MARGIN = 12, MARKER_SIZE = 10.5
\* give 17.25 and 66.75, 52.75 (in ticks of 1/40 mm)
C5_Example ==
    LET g == [Defaults EXCEPT !.MARGIN = 480, !.MARKER_SIZE = 420]
        at(l) == <<corner_center(g, 3360, 2800, l).u, corner_center(g, 3360, 2800, l).v>>
    IN  /\ at("BL") = <<690, 690>>
        /\ at("BR") = <<2670, 690>>
        /\ at("TL") = <<690, 2110>>
        /\ at("TR") = <<2670, 2110>>

\* place_markers has run to its end
MarkersPlaced == pc \in {"export", "done"} /\ Len(markers) = Len(MarkerPlan)

\* C5 (as claimed): once the markers are placed, for every panel size W x H
\* (those place_markers used among them) and every corner label the point of
\* corner_center lies in [MARGIN, W-MARGIN] x [MARGIN, H-MARGIN].
C5_AnyPanelInsideMargins ==
    /\ C5_Example
    /\ MarkersPlaced =>
          \A w \in PanelSizes \cup {G.PANEL_W, G.PANEL_H},
             h \in PanelSizes \cup {G.PANEL_H}, l \in Labels :
                InMarginBox(corner_center(G, w, h, l), w, h, G.MARGIN)

\* a panel dimension wide enough for two margins and half a marker
FitsMarker(g, d) == g.MARKER_SIZE >= 0 /\ d >= 2 * g.MARGIN + Half(g.MARKER_SIZE)

\* C5 (amended): the same, for the panel sizes with
\* W, H >= 2*MARGIN + MARKER_SIZE/2 and MARKER_SIZE >= 0.
C5_FittingPanelInsideMargins ==
    /\ C5_Example
    /\ MarkersPlaced =>
          \A w \in PanelSizes \cup {G.PANEL_W, G.PANEL_H},
             h \in PanelSizes \cup {G.PANEL_H}, l \in Labels :
                (FitsMarker(G, w) /\ FitsMarker(G, h)) =>
                    InMarginBox(corner_center(G, w, h, l), w, h, G.MARGIN)

C5_Witness ==
    /\ MarkersPlaced
    /\ FitsMarker(G, G.PANEL_W) /\ FitsMarker(G, G.PANEL_H)
    /\ G.PANEL_W - G.MARGIN - Half(G.MARKER_SIZE) > G.MARGIN + Half(G.MARKER_SIZE)

---------------------------------------------------------------------------
(* C6 *)

\* the four canonical corner coordinates for a panel of extent w x h
CornerU(g, w, l) ==
    IF l \in {"BL", "TL"} THEN g.MARGIN + Half(g.MARKER_SIZE)
    ELSE w - (g.MARGIN + Half(g.MARKER_SIZE))

CornerV(g, h, l) ==
    IF l \in {"BL", "BR"} THEN g.MARGIN + Half(g.MARKER_SIZE)
    ELSE h - (g.MARGIN + Half(g.MARKER_SIZE))

\* corner_center is the corner-inset formula, and raises for other labels
CornerFormula ==
    \A w \in PanelSizes, h \in PanelSizes :
        /\ \A l \in Labels :
              corner_center(G, w, h, l) =
                  [raised |-> "none", u |-> CornerU(G, w, l), v |-> CornerV(G, h, l)]
        /\ \A l \in {"bl", "C", ""} :
              corner_center(G, w, h, l).raised = "ValueError"

\* the in-plane coordinates (along the panel's two axes, from the panel's
\* origin corner) of the i-th marker placed, in world units
InPlane(i) ==
    LET p == MarkerPlan[i][2]
        m == markers[i]
    IN  CASE p = "floor" -> <<m.pos.x, m.pos.y>>
          [] p = "back"  -> <<m.pos.x, m.pos.z - mm(G.PANEL_THICK)>>
          [] p = "right" -> <<m.pos.y, m.pos.z - mm(G.PANEL_THICK)>>

\* every marker placed sits at the corner formula for the extent ext(panel)
MarkersAtCorners(ext(_)) ==
    \A i \in 1..Len(markers) :
        LET wh == ext(MarkerPlan[i][2])
            l  == MarkerPlan[i][3]
        IN  InPlane(i) = <<mm(CornerU(G, wh[1], l)), mm(CornerV(G, wh[2], l))>>

\* the checker's active area on a panel
ActiveExtent(panel) ==
    LET active_w == G.CHECKER_COLS * G.SQUARE_SIZE
        active_h == G.CHECKER_ROWS * G.SQUARE_SIZE
    IN  IF panel = "right" THEN <<active_h, active_h>> ELSE <<active_w, active_h>>

\* the whole panel
PanelExtent(panel) ==
    IF panel = "right" THEN <<G.PANEL_H, G.PANEL_H>> ELSE <<G.PANEL_W, G.PANEL_H>>

\* C6 (as claimed): corner_center is the corner-inset formula (ValueError
\* for any other label) and place_markers calls it with the ACTIVE width and
\* height of the panel.
C6_MarkersFromActiveExtent ==
    /\ CornerFormula
    /\ MarkersAtCorners(ActiveExtent)

\* C6 (amended): corner_center is the corner-inset formula (ValueError for
\* any other label) and place_markers calls it with the FULL panel width and
\* height: (PANEL_W, PANEL_H) on the floor and the back wall, (PANEL_H,
\* PANEL_H) on the right wall.
C6_MarkersFromPanelExtent ==
    /\ CornerFormula
    /\ MarkersAtCorners(PanelExtent)

C6_Witness ==
    /\ MarkersPlaced
    /\ G.PANEL_W # G.CHECKER_COLS * G.SQUARE_SIZE
    /\ G.PANEL_H # G.CHECKER_ROWS * G.SQUARE_SIZE

---------------------------------------------------------------------------
(* C7 *)

\* C7: the floor solid (before and after the cutout is subtracted) spans
\* [0, PANEL_W+OVERLAP] x [0, PANEL_H+OVERLAP] x [0, PANEL_THICK], so that
\* its +Z face is at z = PANEL_THICK.
C7_FloorExtent ==
    Built("Floor") =>
        /\ scene["Floor"].mn = Vector(0, 0, 0)
        /\ scene["Floor"].mx = Vector(mm(G.PANEL_W + G.OVERLAP),
                                      mm(G.PANEL_H + G.OVERLAP),
                                      mm(G.PANEL_THICK))

C7_Witness ==
    /\ Built("Floor")
    /\ G.OVERLAP > 0
    /\ G.PANEL_W # G.PANEL_H

---------------------------------------------------------------------------
(* C8 *)

\* the box subtracted from the floor of the scene
FloorCut == CHOOSE c \in scene["Floor"].cut : TRUE

FloorBox == Box(scene["Floor"].mn, scene["Floor"].mx)

\* the cutout is centred at PANEL_W/2 with X extent CUTOUT_WIDTH, reaches
\* beyond both faces of the floor in Z, starts below y = 0 and ends at
\* y = CUTOUT_DEPTH
CutoutPlaced ==
    /\ scene["Floor"].cut = {FloorCut}
    /\ FloorCut.mn.x + FloorCut.mx.x = mm(G.PANEL_W)
    /\ FloorCut.mx.x - FloorCut.mn.x = mm(G.CUTOUT_WIDTH)
    /\ FloorCut.mn.z < FloorBox.mn.z /\ FloorBox.mx.z < FloorCut.mx.z
    /\ FloorCut.mn.y < 0 /\ FloorCut.mx.y = mm(G.CUTOUT_DEPTH)

\* what the cutout removes is the notch of the claim
NotchRemoved ==
    Intersect(FloorBox, FloorCut) =
        Box(Vector(mm(Half(G.PANEL_W)) - mm(Half(G.CUTOUT_WIDTH)), 0, 0),
            Vector(mm(Half(G.PANEL_W)) + mm(Half(G.CUTOUT_WIDTH)),
                   mm(G.CUTOUT_DEPTH), mm(G.PANEL_THICK)))

PositiveCutout ==
    G.PANEL_W > 0 /\ G.PANEL_THICK > 0 /\ G.CUTOUT_WIDTH > 0 /\ G.CUTOUT_DEPTH > 0

\* C8 (as claimed): for all positive PANEL_W, PANEL_THICK, CUTOUT_WIDTH and
\* CUTOUT_DEPTH the cutout is so placed and removes exactly
\* [W/2 - CW/2, W/2 + CW/2] x [0, CUTOUT_DEPTH] x [0, PANEL_THICK].
C8_NotchForAllPositive ==
    (Built("Floor") /\ PositiveCutout) => (CutoutPlaced /\ NotchRemoved)

\* the notch of the claim lies inside the floor
NotchInsideFloor ==
    /\ G.CUTOUT_WIDTH <= G.PANEL_W
    /\ G.CUTOUT_WIDTH <= G.PANEL_W + 2 * G.OVERLAP
    /\ G.CUTOUT_DEPTH <= G.PANEL_H + G.OVERLAP

\* C8 (amended): the cutout is so placed for all positive values, and it
\* removes exactly that notch when CUTOUT_WIDTH <= PANEL_W,
\* CUTOUT_WIDTH <= PANEL_W + 2*OVERLAP and CUTOUT_DEPTH <= PANEL_H + OVERLAP.
C8_NotchWhenInsideFloor ==
    (Built("Floor") /\ PositiveCutout) =>
        /\ CutoutPlaced
        /\ NotchInsideFloor => NotchRemoved

C8_Witness ==
    /\ Built("Floor") /\ PositiveCutout /\ NotchInsideFloor
    /\ G.CUTOUT_WIDTH < G.PANEL_W

---------------------------------------------------------------------------
(* C9 *)

SceneBox(name) == Box(scene[name].mn, scene[name].mx)

PositivePanel == G.PANEL_W > 0 /\ G.PANEL_H > 0 /\ G.PANEL_THICK > 0

\* C9: with OVERLAP > 0 and positive panel dimensions the back wall starts
\* at z >= PANEL_THICK - OVERLAP and is PANEL_W + OVERLAP long in X and
\* PANEL_H + OVERLAP high, the right wall is PANEL_H + OVERLAP long in Y and
\* as high, and each two of the three panel boxes share a box of positive
\* volume.
C9_Watertight ==
    (G.OVERLAP > 0 /\ PositivePanel /\ Built("Floor") /\ Built("BackWall")
        /\ Built("RightWall")) =>
        LET f == SceneBox("Floor")
            b == SceneBox("BackWall")
            r == SceneBox("RightWall")
        IN  /\ b.mn.z >= mm(G.PANEL_THICK - G.OVERLAP)
            /\ b.mn.x = 0 /\ b.mx.x = mm(G.PANEL_W + G.OVERLAP)
            /\ b.mx.z - b.mn.z = mm(G.PANEL_H + G.OVERLAP)
            /\ r.mn.y = 0 /\ r.mx.y = mm(G.PANEL_H + G.OVERLAP)
            /\ r.mx.z - r.mn.z = mm(G.PANEL_H + G.OVERLAP)
            /\ Volume(Intersect(f, b)) > 0
            /\ Volume(Intersect(f, r)) > 0
            /\ Volume(Intersect(b, r)) > 0

C9_Witness ==
    /\ G.OVERLAP > 0 /\ PositivePanel
    /\ Built("Floor") /\ Built("BackWall") /\ Built("RightWall")
    /\ G.PANEL_THICK < G.OVERLAP

---------------------------------------------------------------------------
(* C10 *)

CutoutThroughFloor ==
    /\ FloorBox.mn.x <= FloorCut.mn.x /\ FloorCut.mx.x <= FloorBox.mx.x
    /\ G.CUTOUT_DEPTH <= G.PANEL_H + G.OVERLAP

\* C10: with the boolean an exact box difference, the floor's volume is the
\* floor box's minus that of its intersection with the cutout box, which is
\* (PANEL_W+OVERLAP)*(PANEL_H+OVERLAP)*PANEL_THICK -
\* CUTOUT_WIDTH*CUTOUT_DEPTH*PANEL_THICK when the cutout lies within the
\* floor's X range and CUTOUT_DEPTH <= PANEL_H + OVERLAP (valid lengths).
C10_FloorVolume ==
    (Built("Floor") /\ ValidConfig(G)) =>
        /\ scene["Floor"].cut # {}
        /\ SolidVolume(scene["Floor"]) =
              Volume(FloorBox) - Volume(Intersect(FloorBox, FloorCut))
        /\ CutoutThroughFloor =>
              SolidVolume(scene["Floor"]) =
                  mm(G.PANEL_W + G.OVERLAP) * mm(G.PANEL_H + G.OVERLAP)
                      * mm(G.PANEL_THICK)
                  - mm(G.CUTOUT_WIDTH) * mm(G.CUTOUT_DEPTH) * mm(G.PANEL_THICK)

C10_Witness ==
    /\ Built("Floor") /\ ValidConfig(G) /\ CutoutThroughFloor
    /\ Volume(Intersect(FloorBox, FloorCut)) > 0

---------------------------------------------------------------------------
(* C11 *)

\* panel-local coordinates and face offsets, in ticks
LocalCoords == {0, 2, 6}

FaceOffsets == {-2, 0, 2}

Origins == {Vector(0, 0, 0), Vector(4, -8, 12)}

\* the rule C11 gives for an orientation, in world units
PointAsClaimed(g, o, dir, u, v, d) ==
    CASE dir = "Z" -> Vector(o.x + MM_TO_M * u, o.y + MM_TO_M * v,
                             o.z + MM_TO_M * (g.PANEL_THICK + d))
      [] dir = "Y" -> Vector(o.x + MM_TO_M * u, o.y - MM_TO_M * d,
                             o.z + MM_TO_M * v)
      [] dir = "X" -> Vector(o.x - MM_TO_M * d, o.y + MM_TO_M * u,
                             o.z + MM_TO_M * v)

\* marker i sits EPS outward from the inside face of the panel it is on,
\* the face being where the scene's panel solid has it
OffInsideFace(i) ==
    LET panel == MarkerPlan[i][2]
        p     == markers[i].pos
    IN  CASE panel = "floor" ->
               /\ p.z = MM_TO_M * (G.PANEL_THICK + G.EPS)
               /\ p.z = scene["Floor"].mx.z + MM_TO_M * G.EPS
          [] panel = "back" ->
               /\ p.y = MM_TO_M * (G.PANEL_H - G.EPS)
               /\ p.y = scene["BackWall"].mn.y - MM_TO_M * G.EPS
          [] panel = "right" ->
               /\ p.x = MM_TO_M * (G.PANEL_W - G.EPS)
               /\ p.x = scene["RightWall"].mn.x - MM_TO_M * G.EPS

\* C11: panel_point maps (u, v) with face offset d by one rule per
\* orientation, Z: origin + (u, v, PANEL_THICK + d), Y: origin + (u, -d, v),
\* X: origin + (-d, u, v), lengths converted to world units; and every
\* marker place_markers creates sits exactly EPS outward from the inside
\* face of its panel.
C11_PanelPointRule ==
    /\ \A o \in Origins, dir \in {"Z", "Y", "X"} :
          \A u \in LocalCoords, v \in LocalCoords, d \in FaceOffsets :
             panel_point(G, o, dir, u, v, d) = PointAsClaimed(G, o, dir, u, v, d)
    /\ MarkersPlaced => \A i \in 1..Len(markers) : OffInsideFace(i)

C11_Witness ==
    /\ MarkersPlaced /\ G.PANEL_THICK > 0 /\ G.EPS > 0
    /\ {MarkerPlan[i][2] : i \in 1..Len(markers)} = {"floor", "back", "right"}

---------------------------------------------------------------------------
(* C12 *)

\* UV sample points: every 24th between 0 and 1
UVSamples == {<<k, 24>> : k \in 0..24}

\* MARGIN/panel < x < 1 - MARGIN/panel for a positive panel length, x = n/d
StrictlyInside(margin, panel, x) ==
    /\ margin * x[2] < x[1] * panel
    /\ x[1] * panel < (panel - margin) * x[2]

\* the panel width and height main() gives the i-th material (lines 825-827)
MaterialPanel(i) == IF i = 3 THEN <<G.PANEL_H, G.PANEL_H>> ELSE <<G.PANEL_W, G.PANEL_H>>

\* the mask and the colour of material i are as C12 says, at every sample
MaskAsClaimed(i) ==
    \A u \in UVSamples, v \in UVSamples :
       LET inside == /\ StrictlyInside(G.MARGIN, MaterialPanel(i)[1], u)
                     /\ StrictlyInside(G.MARGIN, MaterialPanel(i)[2], v)
       IN  /\ mask_value(mats[i], u, v) = (IF inside THEN 1 ELSE 0)
           /\ mix_color(mats[i], u, v) = (IF inside THEN "checker" ELSE "margin")

\* the samples of the claim, for panel_w = 108, panel_h = 94, MARGIN = 12
C12_Example ==
    LET mat == make_checker_material(Defaults, Defaults.PANEL_W, Defaults.PANEL_H)
    IN  /\ mask_value(mat, <<1, 20>>, <<1, 2>>) = 0
        /\ mask_value(mat, <<1, 2>>, <<1, 2>>) = 1
        /\ mask_value(mat, <<1, 9>>, <<1, 2>>) = 0

\* C12: the mask of make_checker_material(panel_w, panel_h) is true at
\* (u, v) exactly when MARGIN/panel_w < u < 1 - MARGIN/panel_w and
\* MARGIN/panel_h < v < 1 - MARGIN/panel_h, the boundary being margin; the
\* colour is the checker where the mask is true and the margin colour where
\* it is false; for panel_w = 108, MARGIN = 12 the sample (0.05, 0.5) is
\* masked false and (0.5, 0.5) true.
C12_MaskIsOpenActiveRectangle ==
    /\ C12_Example
    /\ \A i \in 1..Len(mats) : MaskAsClaimed(i)

\* the three materials exist and a sample lies on the mask's boundary while
\* another lies strictly inside
C12_Witness ==
    /\ Len(mats) = 3
    /\ \E u \in UVSamples :
          /\ u[1] * G.PANEL_W = G.MARGIN * u[2]
          /\ mask_value(mats[1], u, <<1, 2>>) = 0
    /\ \E u \in UVSamples : mask_value(mats[1], u, <<1, 2>>) = 1

---------------------------------------------------------------------------
(* C13 *)

\* no panel, marker plane or material exists and the scene the script found
\* is as it was
NothingCreated ==
    /\ scene = InitialScene
    /\ markers = <<>> /\ mats = <<>> /\ calls = <<>>
    /\ parts = <<>> /\ materials = <<>>
    /\ exported = 0

AbortedOnMissingFile == pc = "aborted" /\ err = "FileNotFoundError"

\* a marker image was absent when main() started (files do not come back,
\* and image 8 does not vanish during a run)
StartedWithoutImage == "8" \notin present

C13_MissingFoundLater ==
    /\ AbortedOnMissingFile /\ markers # <<>> /\ exported = 0

---------------------------------------------------------------------------
(* C14 *)

\* main() of the classifier script is past pick_floor_and_walls
PastPick == pc \in {"order", "place", "export_glb", "done"}

\* nothing was placed and the exporter was not invoked
NoMarkerNoExport == markers = <<>> /\ exported = 0

\* C14 (as claimed): with zero parts, or with fewer than three panel
\* candidates, main() aborts, places no marker and does not export.
C14_FewerThanThreeIsTerminal ==
    Len(parts) < 3 => NoMarkerNoExport /\ pc # "done"

\* the markers main() places for the walls it has
PlacedForWalls ==
    Len(markers) = 3 + (IF Len(walls) > 0 THEN 4 ELSE 0)
                     + (IF Len(walls) > 1 THEN 1 ELSE 0)

\* C14 (amended): a scene without a mesh and a separation that yields zero
\* parts end main() in RuntimeError with no marker placed and nothing
\* exported; with one or two parts main() goes on (it only warns), the
\* floor is identified for every non-empty candidate list, by the Z-normal
\* rule or the largest-volume fallback, and the markers of the floor and of
\* the walls that exist are placed before the export.
C14_ZeroPartsIsTerminal ==
    /\ Len(parts) = 0 =>
          /\ NoMarkerNoExport
          /\ pc \in {"files", "base", "separate", "aborted"}
          /\ pc = "aborted" => err \in {"FileNotFoundError", "RuntimeError"}
    /\ err # "IndexError"
    /\ PastPick => floor # None /\ Len(walls) = Len(panels) - 1
    /\ Len(parts) > 0 /\ pc = "aborted" => err = "RuntimeError" /\ exported = 1
    /\ pc \in {"export_glb", "done"} => PlacedForWalls

\* the separation gave no part and main() has aborted
C14_Witness ==
    /\ pc = "aborted" /\ err = "RuntimeError"
    /\ DOMAIN scene # {} /\ parts = <<>>
    /\ NoMarkerNoExport


---------------------------------------------------------------------------
(* C15 *)

\* the host operators main() invokes, in the order of lines 813-839
PipelineCalls ==
    <<"delete:all", "cube:Floor", "cube:CutoutBox", "boolean:Floor",
      "delete:CutoutBox", "cube:BackWall", "cube:RightWall", "image">>
    \o [i \in 1..8 |-> "plane"] \o <<"export">>

\* the steps of main() in program order
PipelineOrder ==
    <<"load", "validate", "clear", "floor", "back", "right", "image",
      "materials", "markers", "export", "done">>

StepIndex(p) == CHOOSE i \in 1..Len(PipelineOrder) : PipelineOrder[i] = p

\* how many entries of the call log each step has left behind when reached
CallsBefore(p) ==
    CASE p \in {"load", "validate", "clear"} -> 0
      [] p = "floor" -> 1
      [] p = "back" -> 5
      [] p = "right" -> 6
      [] p = "image" -> 7
      [] p \in {"materials", "markers"} -> 8
      [] p = "export" -> 16
      [] p = "done" -> 17

Count(seq, x) == Cardinality({i \in 1..Len(seq) : seq[i] = x})

AllPanelsBuilt == Built("Floor") /\ Built("BackWall") /\ Built("RightWall")

\* C15: every run of the forward pipeline is a strict linear sequence:
\* dimensions are resolved, then the three panels are built with exactly one
\* boolean subtraction, on the floor, then materials and markers, then the
\* export; the export happens at most once and only with three panels and
\* eight markers in the scene; a run that raises has not exported and never
\* will.
C15_PipelineIsLinear ==
    /\ Len(calls) <= Len(PipelineCalls)
    /\ calls = SubSeq(PipelineCalls, 1, Len(calls))
    /\ pc # "aborted" => /\ pc \in Range(PipelineOrder)
                         /\ Len(calls) = CallsBefore(pc)
                         /\ err = "none"
    /\ pc = "load" => G = Defaults /\ scene = InitialScene
    /\ calls # <<>> => Loaded
    /\ Count(calls, "boolean:Floor") <= 1
    /\ Built("BackWall") => Count(calls, "boolean:Floor") = 1
    /\ Len(mats) > 0 \/ Len(markers) > 0 => AllPanelsBuilt
    /\ Len(markers) > 0 => Len(mats) = 3
    /\ exported <= 1
    /\ exported = Count(calls, "export")
    /\ exported = 1 => /\ AllPanelsBuilt
                       /\ Len(markers) = 8
                       /\ Len(mats) = 3
                       /\ pc = "done"
    /\ pc = "aborted" <=> err # "none"
    /\ pc = "aborted" => exported = 0 /\ ~ENABLED Next
    /\ pc \notin {"aborted", "done"} => ENABLED Next

\* a run exported after the whole pipeline
C15_Witness ==
    /\ pc = "done"
    /\ calls = PipelineCalls
    /\ exported = 1

\* a run raised after the panels were built and stopped short of the export
C15_AbortedMidway ==
    /\ pc = "aborted"
    /\ AllPanelsBuilt
    /\ exported = 0


---------------------------------------------------------------------------
(* C16 *)

\* default sets main() can hold in its globals: the literals of the module
\* with the panel size, the counts or the margin replaced (a panel size
\* that is not positive is derived; a negative count makes the derived size
\* negative, so that it is derived again by every later resolution)
DefaultSets ==
    { Defaults,
      [Defaults EXCEPT !.PANEL_W = 0],
      [Defaults EXCEPT !.PANEL_H = -40, !.CHECKER_ROWS = -5],
      [Defaults EXCEPT !.PANEL_W = 0, !.PANEL_H = 0, !.MARGIN = 0,
                       !.CHECKER_COLS = 0] }

\* resolving g against d reaches a fixed point at once
FixedPoint(g, d) ==
    parse_raised(d, g) = "none" =>
        LET r == load_dimensions(g, d)
        IN  /\ parse_raised(d, r) = "none"
            /\ load_dimensions(r, d) = r

\* C16: the parameter set load_dimensions returns, taken as the new
\* defaults (the globals main() has assigned) and resolved again against
\* the same override document, comes back identical, for every override
\* document and every default set.
C16_ResolverIsIdempotent ==
    /\ Loaded /\ err # "OverflowError" =>
          /\ parse_raised(doc, G) = "none"
          /\ load_dimensions(G, doc) = G
    /\ pc = "load" => \A g \in DefaultSets : FixedPoint(g, doc)

\* main() has assigned the resolved set, in which the document replaced a
\* default and the panel width was derived
C16_Witness ==
    /\ pc = "validate"
    /\ G # Defaults
    /\ doc.exists /\ Supplied("PANEL_W") /\ Supplied("CHECKER_COLS")
    /\ G.PANEL_W = G.CHECKER_COLS * G.SQUARE_SIZE + 2 * G.MARGIN


---------------------------------------------------------------------------
(* C17 *)

\* the lines the specification says change nothing: blank lines, comment
\* lines, lines without a separator, lines with an unknown key and lines
\* whose value fails the numeric coercion of their key
Inert(line) ==
    \/ line = Line("", "", "")
    \/ line.key \in {"#", "# PANEL_W"}
    \/ line.sep = ""
    \/ upper(strip(line.key)) \notin Keys
    \/ strip(line.val) \in {"abc", "inf"}

RECURSIVE WithoutInert(_)
WithoutInert(lines) ==
    IF lines = <<>> THEN <<>>
    ELSE IF Inert(Head(lines)) THEN WithoutInert(Tail(lines))
    ELSE <<Head(lines)>> \o WithoutInert(Tail(lines))

\* the parser returns what it returns for the document without its inert
\* lines, and a value for every key
InertLinesChangeNothing ==
    LET merged == parse_dimensions_file(doc, Defaults)
        kept   == [exists |-> doc.exists, lines |-> WithoutInert(doc.lines)]
    IN  /\ DOMAIN merged = Keys
        /\ merged = parse_dimensions_file(kept, Defaults)
        /\ doc.exists /\ kept.lines = <<>> => merged = Defaults

\* C17: for every override document parse_dimensions_file completes without
\* raising and returns a value for every default key; blank lines, lines
\* starting with '#', lines with no '=' or ':' and lines with an unknown key
\* change nothing, and a line whose value fails the numeric coercion of its
\* key is skipped, the key keeping its default or the value accepted before.
C17_ParserNeverRaises ==
    /\ err # "OverflowError"
    /\ Loaded /\ err = "none" => G = load_dimensions(Defaults, doc)
    /\ InertLinesChangeNothing

\* main() left by the OverflowError of int(float("inf")), nothing resolved
C17_Raised ==
    /\ pc = "aborted" /\ err = "OverflowError"
    /\ G = Defaults
    /\ \E i \in 1..Len(doc.lines) : doc.lines[i] = Line("CHECKER_COLS", "=", "inf")


---------------------------------------------------------------------------
(* C18 *)

\* the field names of the specification, in upper case, and the parameter
\* each of them names
FieldNames ==
    [COLS |-> "CHECKER_COLS", ROWS |-> "CHECKER_ROWS",
     SQUARE_SIZE_MM |-> "SQUARE_SIZE", MARGIN_MM |-> "MARGIN",
     MARKER_SIZE_MM |-> "MARKER_SIZE", FACE_EPS_MM |-> "EPS",
     CUTOUT_WIDTH_MM |-> "CUTOUT_WIDTH", CUTOUT_DEPTH_MM |-> "CUTOUT_DEPTH",
     PANEL_OVERLAP_MM |-> "OVERLAP", PANEL_W_MM |-> "PANEL_W",
     PANEL_H_MM |-> "PANEL_H", PANEL_THICK_MM |-> "PANEL_THICK"]

\* the names of the module globals
GlobalNames ==
    {"PANEL_W", "PANEL_H", "PANEL_THICK", "CHECKER_COLS", "CHECKER_ROWS",
     "SQUARE_SIZE", "MARGIN", "MARKER_SIZE", "EPS", "CUTOUT_WIDTH",
     "CUTOUT_DEPTH", "OVERLAP"}

\* the key texts of the model that spell a name, in any letter case and
\* with blanks around them
Spellings(name) ==
    CASE name = "PANEL_W"      -> {"PANEL_W", "panel_w"}
      [] name = "CHECKER_ROWS" -> {"CHECKER_ROWS", "checker_rows"}
      [] name = "MARGIN"       -> {"MARGIN", " Margin "}
      [] name = "COLS"         -> {"COLS", "cols"}
      [] name = "PANEL_W_MM"   -> {"PANEL_W_MM", "panel_w_mm"}
      [] OTHER                 -> {name}

\* the names under which the document may set parameter k: its field name
\* (as claimed) or the name of its global
NamesOf(k, asClaimed) ==
    IF asClaimed THEN {n \in DOMAIN FieldNames : FieldNames[n] = k} ELSE {k}

\* line i of the document is a KEY=VALUE or KEY: VALUE line that names
\* parameter k and carries a number
Sets(i, k, asClaimed) ==
    /\ doc.lines[i].sep \in {"=", ":"}
    /\ \E n \in NamesOf(k, asClaimed) : doc.lines[i].key \in Spellings(n)
    /\ float(strip(doc.lines[i].val)).ok
    /\ ~float(strip(doc.lines[i].val)).inf

\* the value parameter k has after the merge under a rule for the keys: that
\* of the last line that sets it, else the default
MergedValue(k, asClaimed) ==
    LET setting == {i \in 1..Len(doc.lines) : Sets(i, k, asClaimed)}
    IN  IF ~doc.exists \/ setting = {} THEN Defaults[k]
        ELSE LET last == CHOOSE i \in setting : \A j \in setting : j <= i
                 v    == float(strip(doc.lines[last].val)).v
             IN  IF k \in IntKeys THEN Trunc(v) ELSE v

KeysFollow(asClaimed) ==
    pc = "validate" =>
        \A k \in GlobalNames \ {"PANEL_W", "PANEL_H"} :
            G[k] = MergedValue(k, asClaimed)

PanelFollows(asClaimed) ==
    pc = "validate" =>
        /\ MergedValue("PANEL_W", asClaimed) > 0
              => G.PANEL_W = MergedValue("PANEL_W", asClaimed)
        /\ MergedValue("PANEL_H", asClaimed) > 0
              => G.PANEL_H = MergedValue("PANEL_H", asClaimed)

\* C18 (as claimed): the recognized keys are the field names cols, rows,
\* square_size_mm, margin_mm, marker_size_mm, face_eps_mm, cutout_width_mm,
\* cutout_depth_mm, panel_overlap_mm, panel_w_mm, panel_h_mm and
\* panel_thick_mm in any letter case; a line with such a key overrides the
\* parameter and every other key is ignored.
C18_KeysAreFieldNames ==
    KeysFollow(TRUE) /\ PanelFollows(TRUE)

\* C18 (amended): the recognized keys are the names of the twelve module
\* globals, PANEL_W, PANEL_H, PANEL_THICK, CHECKER_COLS, CHECKER_ROWS,
\* SQUARE_SIZE, MARGIN, MARKER_SIZE, EPS, CUTOUT_WIDTH, CUTOUT_DEPTH and
\* OVERLAP, in any letter case and with blanks around them; a KEY=VALUE or
\* KEY: VALUE line with such a key and a number overrides the parameter,
\* the last such line winning, and every other key (the field names cols
\* and panel_w_mm among them) is ignored.
C18_KeysAreGlobalNames ==
    /\ Keys = GlobalNames
    /\ KeysFollow(FALSE) /\ PanelFollows(FALSE)

\* resolved from a document that sets the width in lower case and names a
\* field of the specification, which was ignored
C18_Witness ==
    /\ pc = "validate"
    /\ Len(doc.lines) = 2
    /\ \E i \in 1..2 : doc.lines[i] = Line("panel_w", "=", "20")
    /\ \E i \in 1..2 : doc.lines[i] = Line("cols", "=", "8")
    /\ G.PANEL_W = 800
    /\ G.CHECKER_COLS = 6


---------------------------------------------------------------------------
(* C19 *)

\* the panel size the checker area and the margins of the merged values
\* call for
ExpectedW ==
    MergedValue("CHECKER_COLS", FALSE) * MergedValue("SQUARE_SIZE", FALSE)
        + 2 * MergedValue("MARGIN", FALSE)

ExpectedH ==
    MergedValue("CHECKER_ROWS", FALSE) * MergedValue("SQUARE_SIZE", FALSE)
        + 2 * MergedValue("MARGIN", FALSE)

\* the supplied (or default) positive panel size is more than 0.1 mm, that
\* is 4 ticks, off the expected one
WidthMismatch ==
    /\ MergedValue("PANEL_W", FALSE) > 0
    /\ Abs(MergedValue("PANEL_W", FALSE) - ExpectedW) > 4

HeightMismatch ==
    /\ MergedValue("PANEL_H", FALSE) > 0
    /\ Abs(MergedValue("PANEL_H", FALSE) - ExpectedH) > 4

\* C19: the panel-size consistency check is advisory only: when the
\* supplied PANEL_W (> 0) is more than 0.1 mm off CHECKER_COLS*SQUARE_SIZE +
\* 2*MARGIN, or PANEL_H likewise, load_dimensions warns, returns normally,
\* returns the supplied PANEL_W and PANEL_H unchanged and alters no other
\* parameter.
C19_SizeCheckIsAdvisory ==
    Loaded /\ parse_raised(doc, Defaults) = "none"
           /\ (WidthMismatch \/ HeightMismatch) =>
        /\ warned
        /\ pc = "validate" => err = "none" /\ ENABLED ValidateMarkerFiles
        /\ err \notin {"ValueError", "OverflowError"}
        /\ MergedValue("PANEL_W", FALSE) > 0
              => G.PANEL_W = MergedValue("PANEL_W", FALSE)
        /\ MergedValue("PANEL_H", FALSE) > 0
              => G.PANEL_H = MergedValue("PANEL_H", FALSE)
        /\ \A k \in GlobalNames \ {"PANEL_W", "PANEL_H"} :
              G[k] = MergedValue(k, FALSE)

\* resolved with a supplied width of 20 mm against an expected 108 mm
C19_Witness ==
    /\ pc = "validate" /\ warned
    /\ WidthMismatch
    /\ Supplied("PANEL_W")
    /\ G.PANEL_W = 800 /\ ExpectedW = 4320

\* resolved without a warning
C19_NoWarning == pc = "validate" /\ ~warned


---------------------------------------------------------------------------
(* C20 *)

\* corners and strictly positive sizes in world units
BoxCorners == {Vector(x, y, z) : x \in {-4, 0, 4}, y \in {-4, 0, 4}, z \in {-4, 0, 4}}

BoxSizes == {Vector(x, y, z) : x \in {4, 8, 12}, y \in {4, 8, 12}, z \in {4, 8, 12}}

\* the box has its minimum vertex at corner, reaches size along each axis
\* and is centred at corner + size/2
IsBoxFrom(box, corner, size) ==
    /\ box.mn = corner
    /\ box.mx.x - box.mn.x = size.x
    /\ box.mx.y - box.mn.y = size.y
    /\ box.mx.z - box.mn.z = size.z
    /\ VAdd(box.mn, box.mx) = VAdd(VScale(corner, 2), size)

WallZ == Max(0, G.PANEL_THICK - G.OVERLAP)

\* C20: add_box_from_corner(corner, size) yields a solid whose minimum
\* vertex is corner, whose extent along each axis is that of size and whose
\* centre is corner + size/2, for every strictly positive size: so are the
\* three panels main() builds, and so is the box of every corner and size
\* of a grid.
C20_BoxFromCorner ==
    /\ Built("Floor") =>
          IsBoxFrom(scene["Floor"], Vector(0, 0, 0),
                    Vector(mm(G.PANEL_W + G.OVERLAP), mm(G.PANEL_H + G.OVERLAP),
                           mm(G.PANEL_THICK)))
    /\ Built("BackWall") =>
          IsBoxFrom(scene["BackWall"], Vector(0, mm(G.PANEL_H), mm(WallZ)),
                    Vector(mm(G.PANEL_W + G.OVERLAP), mm(G.PANEL_THICK + G.OVERLAP),
                           mm(G.PANEL_H + G.OVERLAP)))
    /\ Built("RightWall") =>
          IsBoxFrom(scene["RightWall"], Vector(mm(G.PANEL_W), 0, mm(WallZ)),
                    Vector(mm(G.PANEL_THICK + G.OVERLAP), mm(G.PANEL_H + G.OVERLAP),
                           mm(G.PANEL_H + G.OVERLAP)))
    /\ pc = "floor" =>
          \A c \in BoxCorners, s \in BoxSizes :
              IsBoxFrom(add_box_from_corner(c, s), c, s)

\* the three panels stand, the back wall off the origin
C20_Witness ==
    /\ Built("Floor") /\ Built("BackWall") /\ Built("RightWall")
    /\ scene["BackWall"].mn = Vector(0, mm(G.PANEL_H), mm(WallZ))
    /\ scene["BackWall"].mn.y > 0
    /\ scene["RightWall"].mx.x = mm(G.PANEL_W + G.PANEL_THICK + G.OVERLAP)


---------------------------------------------------------------------------
(* C21 *)

\* the axis of smallest extent, X before Y before Z among equals
SmallestAxis(ext) ==
    IF ext.x <= ext.y /\ ext.x <= ext.z THEN "X"
    ELSE IF ext.y <= ext.z THEN "Y"
    ELSE "Z"

UnitNormal(axis) ==
    CASE axis = "X" -> Vector(1, 0, 0)
      [] axis = "Y" -> Vector(0, 1, 0)
      [] axis = "Z" -> Vector(0, 0, 1)

Cube == PartBox(Vector(0, 0, 0), Vector(40, 40, 40))

BarAlongX == PartBox(Vector(0, 0, 0), Vector(100, 40, 40))

\* C21: guess_panel_normal_axis returns the axis of smallest bounding-box
\* extent and, of equal extents, the first in the order X, Y, Z: a cube
\* yields X, a part whose equal Y and Z extents are smaller than X yields Y.
\* So it is for every separated part, and the planes on the floor carry the
\* normal of that axis.
C21_SmallestExtentAxis ==
    /\ \A i \in 1..Len(parts) :
          guess_panel_normal_axis(parts[i]) = SmallestAxis(extent(parts[i]))
    /\ guess_panel_normal_axis(Cube) = "X"
    /\ guess_panel_normal_axis(BarAlongX) = "Y"
    /\ pc \in {"export_glb", "done"} =>
          \A i \in 1..3 : markers[i].normal = UnitNormal(SmallestAxis(extent(floor)))
    /\ PastPick /\ SmallestAxis(extent(floor)) # "Z" =>
          \A i \in 1..Len(panels) : SmallestAxis(extent(panels[i])) # "Z"

\* a cube was taken for the floor and its planes face +X
C21_Witness ==
    /\ pc = "done"
    /\ get_world_bbox(floor) = Cube
    /\ markers[1].normal = Vector(1, 0, 0)

\* a bar with equal Y and Z extents was taken for a wall
C21_BarIsWall ==
    /\ pc = "done"
    /\ \E i \in 1..Len(walls) : get_world_bbox(walls[i]) = BarAlongX


---------------------------------------------------------------------------
(* C22 *)

\* twice the X of the centre of a part's bounding box
TwiceCentreX(o) == o.mn.x + o.mx.x

MarkerIdsPlaced == [i \in 1..Len(markers) |-> markers[i].id]

\* the ids of the planes, in the order of their creation, that n walls allow
IdsForWalls(n) ==
    <<"6", "8", "7">>
        \o (IF n >= 1 THEN <<"1", "5">> ELSE <<>>)
        \o (IF n >= 2 THEN <<"4">> ELSE <<>>)
        \o (IF n >= 1 THEN <<"3", "2">> ELSE <<>>)

\* the plane lies within eps of the bounding box of the part
OnPart(m, o) ==
    /\ o.mn.x - eps_m <= m.pos.x /\ m.pos.x <= o.mx.x + eps_m
    /\ o.mn.y - eps_m <= m.pos.y /\ m.pos.y <= o.mx.y + eps_m
    /\ o.mn.z - eps_m <= m.pos.z /\ m.pos.z <= o.mx.z + eps_m

\* C22: of the wall candidates the left wall is the one whose bounding-box
\* centre has the smallest X and the right wall the next; with one wall
\* candidate there is only a left wall, with none there is neither, and the
\* run does not fail for it: the planes of a missing wall are not made
\* (4 needs the right wall; 1, 5, 2, 3 need the left wall), the floor's
\* planes are made and the exporter is invoked.
C22_WallsOrderedByCentreX ==
    /\ pc \in {"place", "export_glb", "done"} =>
          /\ Len(walls) = Len(panels) - 1
          /\ Len(walls) <= 2
          /\ Range(walls) \cup {floor} = Range(panels)
          /\ Len(walls) = 2 => TwiceCentreX(walls[1]) <= TwiceCentreX(walls[2])
          /\ left_wall = None <=> Len(walls) = 0
          /\ right_wall = None <=> Len(walls) < 2
          /\ left_wall # None => left_wall = walls[1]
          /\ right_wall # None => right_wall = walls[2]
    /\ pc = "place" =>
          LET planes == classifier_markers(floor, left_wall, right_wall)
          IN  /\ [i \in 1..Len(planes) |-> planes[i].id] = IdsForWalls(Len(walls))
              /\ FirstMissingPlane(planes, present) = Len(planes) + 1
    /\ pc \in {"export_glb", "done"} =>
          /\ MarkerIdsPlaced = IdsForWalls(Len(walls))
          /\ \A i \in 1..Len(markers) :
                OnPart(markers[i],
                       IF markers[i].id \in {"6", "8", "7"} THEN floor
                       ELSE IF markers[i].id = "4" THEN walls[2]
                       ELSE walls[1])
    /\ pc = "done" => exported = 1
    /\ pc = "aborted" /\ panels # <<>> => exported = 1 /\ err = "RuntimeError"

\* a run with a single wall candidate ended: the floor's and the left
\* wall's planes were made and the model exported
C22_Witness ==
    /\ pc = "done" /\ exported = 1
    /\ Len(walls) = 1
    /\ MarkerIdsPlaced = <<"6", "8", "7", "1", "5", "3", "2">>

\* a run ended with two walls that the ranking by volume had in the other order
C22_Reordered ==
    /\ pc = "done"
    /\ Len(walls) = 2
    /\ TwiceCentreX(walls[1]) < TwiceCentreX(walls[2])
    /\ bbox_volume(walls[1]) < bbox_volume(walls[2])

\* a run ended with no wall candidate at all
C22_FloorOnly ==
    /\ pc = "done" /\ walls = <<>> /\ MarkerIdsPlaced = <<"6", "8", "7">>


---------------------------------------------------------------------------
(* C23 *)

\* world units per millimetre
UnitsPerMm == 40 * MM_TO_M

\* the largest extent of the part's bounding box, in world units
LargestExtent(o) ==
    Max(Max(o.mx.x - o.mn.x, o.mx.y - o.mn.y), o.mx.z - o.mn.z)

Assigned == pc \in {"rank", "pick", "order", "place", "export_glb", "done"}

\* C23: assign_material_by_size gives every separated part, whatever its
\* role and whether or not it is among the three biggest, exactly one
\* material in slot 0: the black one exactly when the largest extent of its
\* bounding box is at most 25.0 mm (25.0 itself included), else the white.
C23_MaterialBySize ==
    /\ ~Assigned /\ pc # "aborted" => materials = <<>>
    /\ Assigned =>
          /\ Len(materials) = Len(parts)
          /\ \A i \in 1..Len(parts) :
                /\ materials[i] \in {"Laminate_Black", "Laminate_White"}
                /\ materials[i] = "Laminate_Black"
                      <=> LargestExtent(parts[i]) <= 25 * UnitsPerMm

\* four parts were separated; the one left out of the three biggest is
\* black, a part of exactly 25 mm is black and a bigger one white
C23_Witness ==
    /\ pc = "done"
    /\ Len(parts) = 4
    /\ \E i \in 1..4 : parts[i] \notin Range(panels) /\ materials[i] = "Laminate_Black"
    /\ \E i \in 1..4 : /\ LargestExtent(parts[i]) = 25 * UnitsPerMm
                       /\ materials[i] = "Laminate_Black"
    /\ \E i \in 1..4 : materials[i] = "Laminate_White"


---------------------------------------------------------------------------
(* C24 *)

Axes == {"X", "Y", "Z"}

\* the coordinate of point p on an axis
Coord(p, axis) ==
    CASE axis = "X" -> p.x
      [] axis = "Y" -> p.y
      [] axis = "Z" -> p.z

\* the two in-plane axes of a face, first and second
FaceAxes(normal_axis) ==
    CASE normal_axis = "Z" -> <<"X", "Y">>
      [] normal_axis = "X" -> <<"Y", "Z">>
      [] normal_axis = "Y" -> <<"X", "Z">>

\* the four points are the corners of the face of box o normal to the axis,
\* on its max or min side
CornersAsClaimed(c, o, normal_axis, use_max_side) ==
    LET side == IF use_max_side THEN Coord(o.mx, normal_axis)
                ELSE Coord(o.mn, normal_axis)
        a1   == FaceAxes(normal_axis)[1]
        a2   == FaceAxes(normal_axis)[2]
    IN  /\ DOMAIN c = Labels
        /\ \A l \in Labels : Coord(c[l], normal_axis) = side
        /\ Coord(c.BL, a1) = Coord(o.mn, a1) /\ Coord(c.BL, a2) = Coord(o.mn, a2)
        /\ Coord(c.BR, a1) = Coord(o.mx, a1) /\ Coord(c.BR, a2) = Coord(o.mn, a2)
        /\ Coord(c.TL, a1) = Coord(o.mn, a1) /\ Coord(c.TL, a2) = Coord(o.mx, a2)
        /\ Coord(c.TR, a1) = Coord(o.mx, a1) /\ Coord(c.TR, a2) = Coord(o.mx, a2)

\* the plane with the id, as placed
PlaneOf(id) == markers[CHOOSE i \in 1..Len(markers) : markers[i].id = id]

\* the position of a plane without the lift of eps along its normal
Unlifted(m) == VAdd(m.pos, VScale(m.normal, -eps_m))

\* C24: panel_corners_for_face(panel, normal_axis, use_max_side) returns
\* four points with one coordinate on the normal axis, the box max if
\* use_max_side and else the box min, and with the box min/max on the two
\* other axes: BL (min, min), BR (max, min), TL (min, max), TR (max, max) on
\* the first and second in-plane axis, for each normal axis; the planes
\* main() puts on the corners stand eps off exactly these points.
C24_CornersOfFace ==
    /\ \A i \in 1..Len(parts) : \A axis \in Axes : \A side \in BOOLEAN :
          CornersAsClaimed(panel_corners_for_face(parts[i], axis, side),
                           parts[i], axis, side)
    /\ pc \in {"export_glb", "done"} =>
          LET fc == panel_corners_for_face(floor, SmallestAxis(extent(floor)), TRUE)
          IN  /\ CornersAsClaimed(fc, floor, SmallestAxis(extent(floor)), TRUE)
              /\ Unlifted(PlaneOf("6")) = fc.BR
              /\ Unlifted(PlaneOf("8")) = fc.BL
              /\ Unlifted(PlaneOf("7")) = fc.TL
    /\ pc \in {"export_glb", "done"} /\ Len(walls) > 0 =>
          LET ax == SmallestAxis(extent(walls[1]))
              wc == panel_corners_for_face(walls[1], ax, TRUE)
          IN  /\ Unlifted(PlaneOf("1")) = wc.TL
              /\ Unlifted(PlaneOf("5")) = wc.BL
              /\ Unlifted(PlaneOf("3")) = wc.TR
              /\ Coord(Unlifted(PlaneOf("1")), ax) = Coord(walls[1].mx, ax)
    /\ pc \in {"export_glb", "done"} /\ Len(walls) > 1 =>
          Unlifted(PlaneOf("4")) = walls[2].mx

\* a run ended with a floor normal to Z and walls normal to X and to Y
C24_Witness ==
    /\ pc = "done"
    /\ Len(walls) = 2
    /\ {SmallestAxis(extent(floor)), SmallestAxis(extent(walls[1])),
        SmallestAxis(extent(walls[2]))} = Axes
    /\ Unlifted(PlaneOf("6")) = Vector(floor.mx.x, floor.mn.y, floor.mx.z)
    /\ floor.mx.x # floor.mn.x /\ floor.mx.z # floor.mn.z


---------------------------------------------------------------------------
(* C25 *)

\* pixels per square in main() (line 822)
PxPerSquare == 256

\* largest square, in pixels, of the rasters examined pixel by pixel
MaxPx == 3

\* largest number of columns or rows of those rasters
MaxCells == 3

ImageMade == pc \in {"materials", "markers", "export", "done"}

\* the pixels of cell (r, c) of a raster with squares of px pixels
CellPixels(r, c, px) ==
    {<<x, y>> : x \in (c * px)..((c + 1) * px - 1), y \in (r * px)..((r + 1) * px - 1)}

\* the corner pixels of that cell
CellCorners(r, c, px) ==
    {<<x, y>> : x \in {c * px, (c + 1) * px - 1}, y \in {r * px, (r + 1) * px - 1}}

\* every pixel of the set is dark when r + c is even and white when odd
CellIsUniform(pixels, r, c, px) ==
    \A p \in pixels : pixel_is_black(p[1], p[2], px) <=> (r + c) % 2 = 0

\* in a raster of cols x rows squares every cell is of one colour and
\* edge-adjacent cells differ, on the corner pixels of the cells
CheckerOnCorners(cols, rows, px) ==
    LET img == make_checker_image(cols, rows, px)
    IN  /\ img.w = cols * px /\ img.h = rows * px
        /\ \A r \in 0..(rows - 1), c \in 0..(cols - 1) :
              /\ CellCorners(r, c, px) \subseteq (0..(img.w - 1)) \X (0..(img.h - 1))
              /\ CellIsUniform(CellCorners(r, c, px), r, c, px)
              /\ c + 1 < cols =>
                    pixel_is_black(c * px, r * px, px) # pixel_is_black((c + 1) * px, r * px, px)
              /\ r + 1 < rows =>
                    pixel_is_black(c * px, r * px, px) # pixel_is_black(c * px, (r + 1) * px, px)

\* the same on every pixel
CheckerOnPixels(cols, rows, px) ==
    \A r \in 0..(rows - 1), c \in 0..(cols - 1) :
        /\ CellIsUniform(CellPixels(r, c, px), r, c, px)
        /\ \A p \in CellPixels(r, c, px) :
              /\ c + 1 < cols => pixel_is_black(p[1], p[2], px) # pixel_is_black(p[1] + px, p[2], px)
              /\ r + 1 < rows => pixel_is_black(p[1], p[2], px) # pixel_is_black(p[1], p[2] + px, px)

\* the raster is a checker of cols x rows squares
CheckerRaster ==
    /\ pc = "materials" =>
          /\ CheckerOnCorners(G.CHECKER_COLS, G.CHECKER_ROWS, PxPerSquare)
          /\ \A cols \in 1..MaxCells, rows \in 1..MaxCells, px \in 1..MaxPx :
                CheckerOnCorners(cols, rows, px) /\ CheckerOnPixels(cols, rows, px)
    /\ ImageMade => G.CHECKER_COLS >= 0 /\ G.CHECKER_ROWS >= 0

\* C25 (as claimed): the raster is cols*px by rows*px pixels, of an even
\* number of rows and columns of squares, pixel (x, y) dark exactly when
\* ((y div px) + (x div px)) mod 2 = 0, every cell of one colour and
\* edge-adjacent cells of opposite colours.
C25_EvenCheckerRaster ==
    /\ CheckerRaster
    /\ ImageMade => G.CHECKER_COLS % 2 = 0 /\ G.CHECKER_ROWS % 2 = 0

\* C25 (amended): the raster is cols*px by rows*px pixels, of cols columns
\* and rows rows of squares of either parity (6 columns and 5 rows by
\* default), pixel (x, y) dark exactly when ((y div px) + (x div px)) mod 2
\* = 0, every cell of one colour and edge-adjacent cells of opposite colours.
C25_CheckerRaster ==
    /\ CheckerRaster
    /\ ImageMade /\ ~doc.exists => G.CHECKER_COLS = 6 /\ G.CHECKER_ROWS = 5

\* the image of the defaults was made: 6 columns, 5 rows, 1536 x 1280 pixels
C25_Witness ==
    /\ pc = "materials"
    /\ G.CHECKER_ROWS = 5
    /\ make_checker_image(G.CHECKER_COLS, G.CHECKER_ROWS, PxPerSquare) = [w |-> 1536, h |-> 1280]
    /\ pixel_is_black(0, 0, PxPerSquare) /\ ~pixel_is_black(256, 0, PxPerSquare)


---------------------------------------------------------------------------
(* C26 *)

\* the material sends the edges of its mask's active rectangle to the
\* texture coordinates 0 and 1, in u and in v
FillsActiveArea(mat) ==
    /\ mapping_point(mat.margin_u_min, mat.scale_u, mat.offset_u) = <<0, 1>>
    /\ mapping_point(one_minus(mat.margin_u_min), mat.scale_u, mat.offset_u) = <<1, 1>>
    /\ mapping_point(mat.margin_v_min, mat.scale_v, mat.offset_v) = <<0, 1>>
    /\ mapping_point(one_minus(mat.margin_v_min), mat.scale_v, mat.offset_v) = <<1, 1>>

\* the lower edges alone
LowerEdgesAtZero(mat) ==
    /\ mapping_point(mat.margin_u_min, mat.scale_u, mat.offset_u) = <<0, 1>>
    /\ mapping_point(mat.margin_v_min, mat.scale_v, mat.offset_v) = <<0, 1>>

\* C26: for each of the three panel materials of main() (floor and back
\* wall made with (PANEL_W, PANEL_H), right wall with (PANEL_H, PANEL_H)) the
\* remap tex = uv*scale + offset sends the edges of the mask's active
\* rectangle, u = MARGIN/panel_w and u = 1 - MARGIN/panel_w and likewise v,
\* to the texture coordinates 0 and 1, so that the whole checker exactly
\* fills the masked area of every panel.
C26_CheckerFillsActiveArea ==
    \A i \in 1..Len(mats) : FillsActiveArea(mats[i])

\* what does hold: the lower edges go to 0 for every material, and the
\* floor's and the back wall's upper edges go to 1 when the panel size is
\* the checker area plus the margins
C26_LowerEdgesAndMatchingPanels ==
    /\ \A i \in 1..Len(mats) : LowerEdgesAtZero(mats[i])
    /\ ~warned => \A i \in 1..Min(2, Len(mats)) : FillsActiveArea(mats[i])

\* the defaults: the right wall's material leaves the sixth column outside
\* the masked area (the upper u edge goes to 70/84 = 5/6)
C26_RightWallCutOff ==
    /\ pc = "markers" /\ ~doc.exists
    /\ Len(mats) = 3
    /\ FillsActiveArea(mats[1]) /\ FillsActiveArea(mats[2])
    /\ mapping_point(one_minus(mats[3].margin_u_min), mats[3].scale_u, mats[3].offset_u) = <<5, 6>>


---------------------------------------------------------------------------
(* C27 *)

\* the run is one of the forward script / of the classifier script
ForwardRun == calls # <<>> /\ calls[1] = "delete:all"

ClassifierRun == parts # <<>>

PlacedIds == {markers[i].id : i \in 1..Len(markers)}

\* the ids of the planes that lie on a face: the floor's top face, the back
\* wall's inside face, the right wall's inside face
IdsOnFloor ==
    {markers[i].id : i \in {j \in 1..Len(markers) :
        /\ markers[j].normal = Vector(0, 0, 1)
        /\ markers[j].pos.z = mm(G.PANEL_THICK) + mm(G.EPS)}}

IdsOnBackWall ==
    {markers[i].id : i \in {j \in 1..Len(markers) :
        /\ markers[j].normal = Vector(0, -1, 0)
        /\ markers[j].pos.y = mm(G.PANEL_H) - mm(G.EPS)}}

IdsOnRightWall ==
    {markers[i].id : i \in {j \in 1..Len(markers) :
        /\ markers[j].normal = Vector(-1, 0, 0)
        /\ markers[j].pos.x = mm(G.PANEL_W) - mm(G.EPS)}}

\* C27: marker ids are unique per run.  A completed run of the forward
\* script has made exactly one plane for each id 1..8: 8, 6, 7 on the
\* floor, 5, 1, 2, 3 on the back wall and 4 on the right wall.  A run of the
\* classifier script makes at most one plane per id, and all eight exactly
\* when a left and a right wall were identified.
C27_MarkerIdsUnique ==
    /\ \A i, j \in 1..Len(markers) : markers[i].id = markers[j].id => i = j
    /\ PlacedIds \subseteq MarkerIds
    /\ ForwardRun /\ pc = "done" =>
          /\ Len(markers) = 8 /\ PlacedIds = MarkerIds
          /\ IdsOnFloor = {"8", "6", "7"}
          /\ IdsOnBackWall = {"5", "1", "2", "3"}
          /\ IdsOnRightWall = {"4"}
    /\ ClassifierRun /\ pc \in {"export_glb", "done"} =>
          (PlacedIds = MarkerIds <=> left_wall # None /\ right_wall # None)

\* a run of the forward script has ended with its eight planes
C27_Witness ==
    /\ ForwardRun /\ pc = "done"
    /\ Len(markers) = 8 /\ PlacedIds = MarkerIds

\* runs of the classifier script have ended with eight planes / with fewer
C27_ClassifierAllEight ==
    ClassifierRun /\ pc = "done" /\ PlacedIds = MarkerIds /\ Len(walls) = 2

C27_ClassifierFewer ==
    ClassifierRun /\ pc = "done" /\ PlacedIds = {"6", "8", "7", "1", "5", "3", "2"}


---------------------------------------------------------------------------
(* C28 *)

PanelNames == {"floor", "back", "right"}

\* the solid main() builds for a panel
SolidOf(g, panel) ==
    CASE panel = "floor" -> add_floor(g)
      [] panel = "back"  -> add_back_wall(g)
      [] panel = "right" -> add_right_wall(g)

SceneName(panel) ==
    CASE panel = "floor" -> "Floor"
      [] panel = "back"  -> "BackWall"
      [] panel = "right" -> "RightWall"

\* how far below the origin of its markers a wall's volume starts: the
\* walls are sunk into the floor by OVERLAP, at most to z = 0
Sunk(g) == mm(g.PANEL_THICK) - mm(Max(0, g.PANEL_THICK - g.OVERLAP))

C28_NoOverlap ==
    /\ pc = "done" /\ G.OVERLAP = 0
    /\ \A p \in PanelNames : marker_origin(G, p) = scene[SceneName(p)].mn

===========================================================================
